---- MODULE Spec2Model ----
(***************************************************************************)
(* Model of the ContentStorage i18next plugin's value -> key tracking      *)
(* store (src/src/utils.ts): key normalization, the global memory map,     *)
(* trackTranslation and cleanupMemoryMap.                                  *)
(*                                                                         *)
(* Strings that the code inspects character by character (translation     *)
(* keys) are sequences of one-character strings.  Opaque strings (text     *)
(* values, namespaces, languages) are TLA+ strings; the JavaScript value   *)
(* undefined is the string "undefined" for those, and the empty sequence   *)
(* for the optional variables object (None / Some).                        *)
(***************************************************************************)
EXTENDS Integers, Sequences, FiniteSets, TLC

\* ------------------------------------------------------------------ bounds
MaxKeyLen == 4      \* longest generated raw key (pure-function specification)
MaxClock == 3       \* largest value Date.now() returns
MaxOps == 3         \* number of API calls in one behaviour of the store
MaxEvictOps == 6    \* number of API calls in one behaviour of the eviction specification
MaxReads == 2       \* number of read calls in one behaviour of the backend
MaxLoads == 1       \* number of read calls in one behaviour of the loading specification
MaxProcessCalls == 1 \* number of process calls in one behaviour
MaxRetries == 2     \* largest retries argument of loadLiveEditorScript
MaxScriptCalls == 2 \* number of direct loadLiveEditorScript calls in one behaviour
MaxServerOps == 2   \* number of store and process calls in one behaviour on a server

\* ------------------------------------------------------------------ values
Undefined == "undefined"

None == <<>>
Some(x) == <<x>>

\* characters of generated keys
KeyChars == {"a", "b", ":", "."}

RECURSIVE SeqsUpTo(_, _)
SeqsUpTo(S, n) ==
    IF n = 0 THEN {<<>>}
    ELSE LET shorter == SeqsUpTo(S, n - 1)
         IN shorter \cup {Append(s, c) : s \in {x \in shorter : Len(x) = n - 1}, c \in S}

\* 'common:welcome' and 'a:b:c'
KeyCommonWelcome == <<"c","o","m","m","o","n",":","w","e","l","c","o","m","e">>
KeyABC == <<"a", ":", "b", ":", "c">>

GeneratedKeys == SeqsUpTo(KeyChars, MaxKeyLen) \cup {KeyCommonWelcome, KeyABC}

\* namespaces as character sequences, for the normalizer's second argument
NamespaceArgs == {None, Some(<<"n">>), Some(<<"a">>)}

\* raw keys, values and metadata passed to the store
KeyK == <<"k">>
KeyNColonK == <<"n", ":", "k">>
KeyNDotK == <<"n", ".", "k">>
StoreKeys == {KeyK, KeyNColonK, KeyNDotK}
Values == {"", "Welcome", "Goodbye"}
\* (namespace, language) of a call: each is present in one and absent in the other
MetaArgs == {<<Undefined, "en">>, <<"n", Undefined>>}
\* the calls of the eviction specification: distinct texts under one key
TextValues == {"Welcome", "Goodbye", "Hello"}
\* variables objects: a set of <<name, value>> pairs
VarsA1 == {<<"a", 1>>}
VarsB2 == {<<"b", 2>>}
VariablesArgs == {None, Some({}), Some(VarsA1), Some(VarsB2)}
MaxSizes == 0 .. 3

\* ------------------------------------------------------------------ state
VARIABLES
    browser,        \* isBrowser(): window and document exist
    hasMemoryMap,   \* window.memoryMap is set
    memoryMap,      \* window.memoryMap: entries in Map insertion order
    now,            \* the last value Date.now() returned
    nOps,           \* API calls made so far
    lastCall,       \* the last API call and its arguments
    before,         \* window.memoryMap before the last API call
    hadMemoryMap,   \* hasMemoryMap before the last API call
    mapsCreated,    \* Map objects constructed so far; the last is window.memoryMap
    \* pure-function specification
    key, namespaceArg, normalizedKey, renormalizedKey, pc,
    \* the backend plugin (src/src/plugin.ts)
    inIframe,       \* window.self !== window.top
    hasMarker,      \* the URL query has the live-editor parameter
    options,        \* this.options
    isLiveMode,     \* this.isLiveMode
    initialized,    \* init() has run on the instance
    reads,          \* the read calls made: request, state and callback invocations
    topThrows,      \* reading window.top throws (cross-origin parent)
    \* helper-function specifications
    input,          \* the argument of the helper
    output,         \* what the helper returned
    outputAgain,    \* what a second call on the same argument returned
    step,           \* "idle", "input", "called", "again"
    \* the post-processor (src/src/post-processor.ts) and its registration
    processor,          \* the post-processor instance: constructed, its isLiveMode
    postProcess,        \* postProcess of the i18next init options
    processCall,        \* the arguments of the last process call
    returned,           \* what the last process call returned
    \* the live editor script (loadLiveEditorScript in src/src/utils.ts)
    scriptLoad          \* liveEditorReadyPromise, the promise's state, the load in progress

storeVars == <<browser, hasMemoryMap, memoryMap, now, nOps, lastCall, before, hadMemoryMap,
               mapsCreated>>
pureVars == <<key, namespaceArg, normalizedKey, renormalizedKey, pc>>
backendVars == <<inIframe, hasMarker, topThrows, options, isLiveMode, initialized, reads>>
helperVars == <<input, output, outputAgain, step>>
processorVars == <<processor, postProcess, processCall, returned>>
scriptVars == <<scriptLoad>>
vars == <<storeVars, pureVars, backendVars, helperVars, processorVars, scriptVars>>

\* ------------------------------------------------------------------ normalizeKey
includes(s, c) == \E i \in 1 .. Len(s) : s[i] = c

indexOf(s, c) == CHOOSE i \in 1 .. Len(s) : s[i] = c /\ \A j \in 1 .. (i - 1) : s[j] # c

\* String.prototype.replace with a string pattern: the first occurrence only
replace(s, c, d) ==
    IF includes(s, c) THEN [i \in 1 .. Len(s) |-> IF i = indexOf(s, c) THEN d ELSE s[i]]
    ELSE s

\* mutant: the conversion runs the wrong way round (dot to colon)
normalizeKeyReversed(k, namespace) ==
    IF includes(k, ".") THEN replace(k, ".", ":") ELSE k

\* mutant: every colon is converted, as String.prototype.replaceAll would
normalizeKeyAllColons(k, namespace) ==
    [i \in 1 .. Len(k) |-> IF k[i] = ":" THEN "." ELSE k[i]]

\* mutant: a namespace that is passed is put in front of the key
normalizeKeyPrepend(k, namespace) ==
    LET converted == IF includes(k, ":") THEN replace(k, ":", ".") ELSE k
    IN IF namespace # None /\ ~includes(k, ":")
       THEN namespace[1] \o <<".">> \o converted
       ELSE converted

normalizeKey(k, namespace) ==
    IF includes(k, ":") THEN replace(k, ":", ".") ELSE k

\* ------------------------------------------------------------------ store: initial state
NoCall == [op |-> "none", value |-> "", key |-> <<>>, namespace |-> Undefined,
           language |-> Undefined, variables |-> None, maxSize |-> 0, read |-> 0,
           result |-> Undefined]

StoreIdle ==
    /\ browser = TRUE
    /\ hasMemoryMap = FALSE
    /\ memoryMap = <<>>
    /\ now = 1
    /\ nOps = 0
    /\ lastCall = NoCall
    /\ before = <<>>
    /\ hadMemoryMap = FALSE
    /\ mapsCreated = 0

HelperIdle ==
    /\ input = <<>>
    /\ output = <<>>
    /\ outputAgain = <<>>
    /\ step = "idle"

PureIdle ==
    /\ HelperIdle
    /\ key = <<>>
    /\ namespaceArg = None
    /\ normalizedKey = <<>>
    /\ renormalizedKey = <<>>
    /\ pc = "idle"

\* the postProcess option of the i18next init options: absent, false, a name,
\* or an array of names
PostProcessAbsent == [kind |-> "absent", items |-> <<>>]
PostProcessFalse == [kind |-> "false", items |-> <<>>]
PostProcessString(name) == [kind |-> "string", items |-> <<name>>]
PostProcessArray(names) == [kind |-> "array", items |-> names]

\* the module before loadLiveEditorScript was called: liveEditorReadyPromise is
\* null (0; a promise is the number of its construction)
NoScriptLoad ==
    [liveEditorReadyPromise |-> 0,   \* the module variable
     promises |-> 0,                 \* promises constructed
     settled |-> "none",             \* "pending", "true", "false": the promise's state
     retries |-> 0,                  \* retries of the call that started the load
     attempt |-> 0,                  \* attempt of the last loadScript call
     loading |-> FALSE,              \* a script element awaits onload or onerror
     timer |-> FALSE,                \* setTimeout for the next attempt is pending
     elements |-> 0,                 \* script elements created
     inHead |-> 0,                   \* script elements in document.head
     failures |-> 0,                 \* onerror events handled
     returned |-> 0]                 \* the promise the last call returned

ScriptIdle == scriptLoad = NoScriptLoad

NoProcessCall ==
    [value |-> "", key |-> [isArray |-> FALSE, keys |-> <<>>], lng |-> Undefined,
     pairs |-> {}, language |-> Undefined]

\* no post-processor was constructed
ProcessorIdle ==
    /\ processor = [constructed |-> FALSE, isLiveMode |-> FALSE]
    /\ postProcess = PostProcessAbsent
    /\ processCall = NoProcessCall
    /\ returned = ""

\* no backend instance takes part
BackendIdle ==
    /\ ProcessorIdle
    /\ ScriptIdle
    /\ inIframe = FALSE
    /\ hasMarker = FALSE
    /\ topThrows = FALSE
    /\ options = [forceLiveMode |-> FALSE, maxMemoryMapSize |-> None, trackNamespaces |-> None,
                  loadPath |-> None, contentKey |-> Undefined, cdnBaseUrl |-> Undefined,
                  request |-> FALSE]
    /\ isLiveMode = FALSE
    /\ initialized = FALSE
    /\ reads = <<>>

\* ------------------------------------------------------------------ the memory map
\* window.memoryMap is a Map from text value to entry; a Map iterates in
\* insertion order and set() on a present key keeps the key's position.
mapHas(m, v) == \E i \in 1 .. Len(m) : m[i].value = v

mapIndex(m, v) == CHOOSE i \in 1 .. Len(m) : m[i].value = v

mapGet(m, v) == m[mapIndex(m, v)]

\* mutant: a new entry pushes the first one out once there are two
mapSetCapped(m, v, e) ==
    IF mapHas(m, v) THEN [m EXCEPT ![mapIndex(m, v)] = e]
    ELSE IF Len(m) >= 2 THEN Append(Tail(m), e)
    ELSE Append(m, e)

mapSet(m, v, e) ==
    IF mapHas(m, v) THEN [m EXCEPT ![mapIndex(m, v)] = e] ELSE Append(m, e)

mapDelete(m, v) ==
    IF mapHas(m, v)
    THEN SubSeq(m, 1, mapIndex(m, v) - 1) \o SubSeq(m, mapIndex(m, v) + 1, Len(m))
    ELSE m

mapKeys(m) == {m[i].value : i \in 1 .. Len(m)}

\* mutant: getMemoryMap hands out a map although none was initialized
memoryMapAssumed == browser

\* getMemoryMap(): win?.memoryMap || null
memoryMapAvailable == browser /\ hasMemoryMap

\* mutant: the incoming variables are always stored, absent ones too
entryVariablesOverwritten(existing, variables) == variables

\* mutant: the incoming names are added to the names the entry has
entryVariablesMerged(existing, variables) ==
    IF variables # None /\ variables[1] # {}
    THEN IF existing # None THEN Some(existing[1] \cup variables[1]) ELSE variables
    ELSE existing

\* mutant: an empty incoming object is stored as well
entryVariablesEmptyKept(existing, variables) ==
    IF variables # None THEN variables ELSE existing

\* the variables an entry gets: a non-empty incoming object replaces what the
\* entry had, anything else keeps it
entryVariables(existing, variables) ==
    IF variables # None /\ variables[1] # {} THEN variables ELSE existing

\* the namespace of a call as the normalizer's second argument
namespaceArgOf(namespace) ==
    IF namespace = Undefined THEN None ELSE Some(<<namespace>>)

\* mutant: a fresh id set for every call instead of the existing entry's
trackedEntryFreshIds(m, translationValue, translationKey, namespace, language, variables, t) ==
    LET existingVariables == IF mapHas(m, translationValue)
                             THEN mapGet(m, translationValue).variables ELSE None
    IN [value |-> translationValue,
        ids |-> {normalizeKey(translationKey, namespaceArgOf(namespace))},
        type |-> "text",
        namespace |-> namespace,
        language |-> language,
        trackedAt |-> t,
        variables |-> entryVariables(existingVariables, variables)]

\* mutant: idSet.add(normalizedKey) is left out
trackedEntryNoAdd(m, translationValue, translationKey, namespace, language, variables, t) ==
    LET existing == mapHas(m, translationValue)
    IN [value |-> translationValue,
        ids |-> IF existing THEN mapGet(m, translationValue).ids ELSE {},
        type |-> "text",
        namespace |-> namespace,
        language |-> language,
        trackedAt |-> t,
        variables |-> entryVariables(IF existing THEN mapGet(m, translationValue).variables
                                     ELSE None, variables)]

\* mutant: an absent namespace or language keeps what the entry had
trackedEntryKeepsMeta(m, translationValue, translationKey, namespace, language, variables, t) ==
    LET existing == mapHas(m, translationValue)
        old == mapGet(m, translationValue)
    IN [value |-> translationValue,
        ids |-> (IF existing THEN old.ids ELSE {})
                   \cup {normalizeKey(translationKey, namespaceArgOf(namespace))},
        type |-> "text",
        namespace |-> IF namespace = Undefined /\ existing THEN old.namespace ELSE namespace,
        language |-> IF language = Undefined /\ existing THEN old.language ELSE language,
        trackedAt |-> t,
        variables |-> entryVariables(IF existing THEN old.variables ELSE None, variables)]

\* the entry trackTranslation writes for translationValue at time t
trackedEntry(m, translationValue, translationKey, namespace, language, variables, t) ==
    LET normalized == normalizeKey(translationKey, namespaceArgOf(namespace))
        existingIds == IF mapHas(m, translationValue)
                       THEN mapGet(m, translationValue).ids ELSE {}
        existingVariables == IF mapHas(m, translationValue)
                             THEN mapGet(m, translationValue).variables ELSE None
    IN [value |-> translationValue,
        ids |-> existingIds \cup {normalized},
        type |-> "text",
        namespace |-> namespace,
        language |-> language,
        trackedAt |-> t,
        variables |-> entryVariables(existingVariables, variables)]

Call(op, v, k, ns, lang, variables, maxSize) ==
    [op |-> op, value |-> v, key |-> k, namespace |-> ns, language |-> lang,
     variables |-> variables, maxSize |-> maxSize, read |-> 0, result |-> Undefined]

Record(call) ==
    /\ lastCall' = call
    /\ before' = memoryMap
    /\ hadMemoryMap' = hasMemoryMap
    /\ nOps' = nOps + 1

\* window.memoryMap as one value
Store == [has |-> hasMemoryMap, map |-> memoryMap, created |-> mapsCreated]

\* mutant: a new Map is constructed on every call
initializedStoreFresh(st) ==
    IF browser THEN [has |-> TRUE, map |-> <<>>, created |-> st.created + 1] ELSE st

\* mutant: the map is constructed without asking for a window
initializedStoreAnywhere(st) ==
    IF ~st.has THEN [has |-> TRUE, map |-> <<>>, created |-> st.created + 1] ELSE st

\* mutant: the map is handed back when there is one, never constructed
initializedStoreNeverCreated(st) == st

\* window.memoryMap after initializeMemoryMap()
initializedStore(st) ==
    IF browser /\ ~st.has
    THEN [has |-> TRUE, map |-> <<>>, created |-> st.created + 1]
    ELSE st

initializeMemoryMap ==
    /\ LET st == initializedStore(Store)
       IN /\ hasMemoryMap' = st.has
          /\ memoryMap' = st.map
          /\ mapsCreated' = st.created
    /\ Record([Call("initialize", "", <<>>, Undefined, Undefined, None, 0)
                  EXCEPT !.result = IF browser THEN "map" ELSE "null"])
    /\ UNCHANGED <<browser, now, pureVars, helperVars, processorVars, scriptVars, backendVars>>

trackTranslation(translationValue, translationKey, namespace, language, variables) ==
    /\ IF memoryMapAvailable
       THEN \E t \in now .. MaxClock :
               /\ now' = t
               /\ memoryMap' = mapSet(memoryMap, translationValue,
                                      trackedEntry(memoryMap, translationValue, translationKey,
                                                   namespace, language, variables, t))
       ELSE UNCHANGED <<now, memoryMap>>
    /\ Record(Call("track", translationValue, translationKey, namespace, language, variables, 0))
    /\ UNCHANGED <<browser, hasMemoryMap, mapsCreated, pureVars, helperVars, processorVars, scriptVars, backendVars>>

\* a call of getMemoryMap(): the map or null; nothing changes
getMemoryMap ==
    /\ Record([Call("get", "", <<>>, Undefined, Undefined, None, 0)
                  EXCEPT !.result = IF memoryMapAvailable THEN "map" ELSE "null"])
    /\ UNCHANGED <<browser, hasMemoryMap, memoryMap, mapsCreated, now, pureVars, helperVars,
                   processorVars, scriptVars, backendVars>>

\* mutant: the comparator is b.timestamp - a.timestamp, newest first
RECURSIVE sortByTimestampDescending(_)
sortByTimestampDescending(entries) ==
    IF entries = <<>> THEN <<>>
    ELSE LET sorted == sortByTimestampDescending(SubSeq(entries, 1, Len(entries) - 1))
             e == entries[Len(entries)]
             pos == Cardinality({i \in 1 .. Len(sorted) : sorted[i].trackedAt >= e.trackedAt})
         IN SubSeq(sorted, 1, pos) \o <<e>> \o SubSeq(sorted, pos + 1, Len(sorted))

\* Array.prototype.sort with (a, b) => a.timestamp - b.timestamp: ascending and
\* stable, so entries of equal timestamp keep their Map order
\* (an entry's timestamp is metadata.trackedAt || 0; trackedAt is always a
\* clock value >= 1 here)
RECURSIVE sortByTimestamp(_)
sortByTimestamp(entries) ==
    IF entries = <<>> THEN <<>>
    ELSE LET sorted == sortByTimestamp(SubSeq(entries, 1, Len(entries) - 1))
             e == entries[Len(entries)]
             pos == Cardinality({i \in 1 .. Len(sorted) : sorted[i].trackedAt <= e.trackedAt})
         IN SubSeq(sorted, 1, pos) \o <<e>> \o SubSeq(sorted, pos + 1, Len(sorted))

RECURSIVE deleteAll(_, _)
deleteAll(m, entries) ==
    IF entries = <<>> THEN m
    ELSE deleteAll(mapDelete(m, entries[1].value), SubSeq(entries, 2, Len(entries)))

\* mutant: the map is kept below maxSize, one entry more is removed
cleanedOffByOne(m, maxSize) ==
    IF Len(m) < maxSize \/ m = <<>> THEN m
    ELSE LET entries == sortByTimestamp(m)
             toRemove == IF maxSize = 0 THEN Len(m) ELSE Len(m) - maxSize + 1
         IN deleteAll(m, SubSeq(entries, 1, toRemove))

\* mutant: no sort, the entries go in Map order (first inserted first)
cleanedInsertionOrder(m, maxSize) ==
    IF Len(m) <= maxSize THEN m
    ELSE deleteAll(m, SubSeq(m, 1, Len(m) - maxSize))

\* mutant: the size check is missing, every call removes the oldest entry
cleanedOldestAlways(m, maxSize) ==
    IF m = <<>> THEN m
    ELSE deleteAll(m, SubSeq(sortByTimestamp(m), 1, 1))

\* mutant: an entry as old as the oldest one that stays is not removed
cleanedStrictlyOlder(m, maxSize) ==
    IF Len(m) <= maxSize THEN m
    ELSE LET entries == sortByTimestamp(m)
             toRemove == Len(m) - maxSize
             oldest == SubSeq(entries, 1, toRemove)
         IN IF maxSize = 0 THEN deleteAll(m, oldest)
            ELSE deleteAll(m, SelectSeq(oldest,
                                        LAMBDA e : e.trackedAt < entries[toRemove + 1].trackedAt))

\* the map cleanupMemoryMap(maxSize) leaves
cleaned(m, maxSize) ==
    IF Len(m) <= maxSize THEN m
    ELSE LET entries == sortByTimestamp(m)
             toRemove == Len(m) - maxSize
         IN deleteAll(m, SubSeq(entries, 1, toRemove))

cleanupMemoryMap(maxSize) ==
    /\ IF memoryMapAvailable
       THEN memoryMap' = cleaned(memoryMap, maxSize)
       ELSE UNCHANGED memoryMap
    /\ Record(Call("cleanup", "", <<>>, Undefined, Undefined, None, maxSize))
    /\ UNCHANGED <<browser, hasMemoryMap, mapsCreated, now, pureVars, helperVars, processorVars, scriptVars, backendVars>>

\* A page (browser) or a server (no window) on which nothing was called yet
Init ==
    /\ browser \in BOOLEAN
    /\ hasMemoryMap = FALSE
    /\ memoryMap = <<>>
    /\ now = 1
    /\ nOps = 0
    /\ lastCall = NoCall
    /\ before = <<>>
    /\ hadMemoryMap = FALSE
    /\ mapsCreated = 0
    /\ PureIdle
    /\ BackendIdle

Next ==
    \/ nOps < MaxOps /\ initializeMemoryMap
    \/ nOps < MaxOps /\
          \E v \in Values, k \in StoreKeys, meta \in MetaArgs, variables \in VariablesArgs :
             trackTranslation(v, k, meta[1], meta[2], variables)
    \/ nOps < MaxOps /\ \E maxSize \in MaxSizes : cleanupMemoryMap(maxSize)

Spec == Init /\ [][Next]_vars

\* The eviction specification: the calls the bulk loader makes (no namespace,
\* no variables), more of them, on three texts.
InitEvict ==
    /\ StoreIdle
    /\ PureIdle
    /\ BackendIdle

NextEvict ==
    \/ nOps < MaxEvictOps /\ initializeMemoryMap
    \/ nOps < MaxEvictOps /\
          \E v \in TextValues : trackTranslation(v, KeyK, Undefined, "en", None)
    \/ nOps < MaxEvictOps /\ \E maxSize \in MaxSizes : cleanupMemoryMap(maxSize)

SpecEvict == InitEvict /\ [][NextEvict]_vars

\* ------------------------------------------------------------------ flattenTranslations
\* A translation object is the sequence of its own properties in enumeration
\* order; a property is [key, node]; a node is a string, a nested object, or
\* something else (number, array, null).
StringNode(str) == [kind |-> "string", str |-> str, children |-> <<>>]
ObjectNode(children) == [kind |-> "object", str |-> "", children |-> children]
NumberNode == [kind |-> "number", str |-> "", children |-> <<>>]
ArrayNode == [kind |-> "array", str |-> "", children |-> <<>>]
NullNode == [kind |-> "null", str |-> "", children |-> <<>>]
Property(k, node) == [key |-> k, node |-> node]

\* prefix ? `${prefix}.${key}` : key
fullKeyOf(prefix, k) == IF prefix # <<>> THEN prefix \o <<".">> \o k ELSE k

RECURSIVE flattenTranslations(_, _)
flattenTranslations(obj, prefix) ==
    IF obj = <<>> THEN <<>>
    ELSE LET value == obj[1].node
             fullKey == fullKeyOf(prefix, obj[1].key)
             results == IF value.kind = "string"
                        THEN <<[key |-> fullKey, value |-> value.str]>>
                        ELSE IF value.kind = "object"
                             THEN flattenTranslations(value.children, fullKey)
                             ELSE <<>>
         IN results \o flattenTranslations(Tail(obj), prefix)

\* ------------------------------------------------------------------ the backend plugin
DefaultMaxMemoryMapSize == 10000

\* payloads a fetch may deliver
PayloadWelcome == <<Property(<<"w">>, StringNode("Welcome"))>>
PayloadMixed ==
    <<Property(<<"h">>, StringNode("Hello")),
      Property(<<"e">>, StringNode("")),
      Property(<<"c">>, NumberNode),
      Property(<<"n">>, ObjectNode(<<Property(<<"g">>, StringNode("Goodbye"))>>))>>
Payloads == <<PayloadWelcome, PayloadMixed>>

ReadLanguages == {"en"}
ReadNamespaces == {"common", "other"}
\* configurations of the instance
MaxMemoryMapSizeOptions == {None, Some(0), Some(1), Some(2)}
TrackNamespacesOptions == {None, Some({}), Some({"common"})}

\* URLSearchParams(win.location.search).has(name)
has(query, name) == name \in query

\* mutant: the iframe check is left out
detectLiveEditorModeAnyFrame(forceLiveMode) ==
    IF forceLiveMode THEN TRUE
    ELSE IF ~browser THEN FALSE
    ELSE IF topThrows THEN FALSE
    ELSE hasMarker

detectLiveEditorMode(forceLiveMode) ==
    IF forceLiveMode THEN TRUE
    ELSE IF ~browser THEN FALSE
    ELSE IF topThrows THEN FALSE
    ELSE inIframe /\ hasMarker

\* { debug: false, maxMemoryMapSize: 10000, ..., ...backendOptions }
withDefaults(backendOptions) ==
    [backendOptions EXCEPT
        !.maxMemoryMapSize = IF backendOptions.maxMemoryMapSize = None
                             THEN Some(DefaultMaxMemoryMapSize)
                             ELSE backendOptions.maxMemoryMapSize]

\* mutant: the filter is ignored, every namespace is tracked
shouldTrackNamespaceAll(namespace) == TRUE

shouldTrackNamespace(namespace) ==
    \/ options.trackNamespaces = None
    \/ options.trackNamespaces[1] = {}
    \/ namespace \in options.trackNamespaces[1]

\* the calls leave the op counter alone: the backend's behaviours are bounded
\* by MaxReads
Remember(call) ==
    /\ lastCall' = call
    /\ before' = memoryMap
    /\ hadMemoryMap' = hasMemoryMap
    /\ UNCHANGED nOps

\* ------------------------------------------------------------------ loadLiveEditorScript
\* loadScript(attempt): a script element is created and appended to the head
loadScript(sl, attempt) ==
    [sl EXCEPT !.attempt = attempt, !.loading = TRUE, !.timer = FALSE,
               !.elements = @ + 1, !.inHead = @ + 1]

\* resolve(value) of the promise: the first call settles it, later ones do nothing
resolved(sl, value) ==
    [sl EXCEPT !.settled = IF @ = "pending" THEN value ELSE @]

\* mutant: a load that has failed is started again by the next call
startedAgainAfterFailure(sl, retries) ==
    IF sl.liveEditorReadyPromise # 0 /\ sl.settled # "false"
    THEN [sl EXCEPT !.returned = sl.liveEditorReadyPromise]
    ELSE LET promise == [sl EXCEPT !.liveEditorReadyPromise = sl.promises + 1,
                                   !.promises = @ + 1,
                                   !.settled = "pending",
                                   !.retries = retries,
                                   !.returned = sl.promises + 1]
         IN IF ~browser THEN resolved(promise, "false") ELSE loadScript(promise, 1)

\* the module after loadLiveEditorScript(retries, delay, debug): the existing
\* promise is returned, or a promise is constructed whose executor resolves
\* false outside a browser and makes the first attempt in one
started(sl, retries) ==
    IF sl.liveEditorReadyPromise # 0
    THEN [sl EXCEPT !.returned = sl.liveEditorReadyPromise]
    ELSE LET promise == [sl EXCEPT !.liveEditorReadyPromise = sl.promises + 1,
                                   !.promises = @ + 1,
                                   !.settled = "pending",
                                   !.retries = retries,
                                   !.returned = sl.promises + 1]
         IN IF ~browser THEN resolved(promise, "false") ELSE loadScript(promise, 1)

\* scriptElement.onload
scriptLoaded(sl) == resolved([sl EXCEPT !.loading = FALSE], "true")

\* mutant: the comparison is attempt <= retries, one attempt more is made
scriptFailedOneMore(sl) ==
    LET removed == [sl EXCEPT !.loading = FALSE, !.inHead = @ - 1, !.failures = @ + 1]
    IN IF sl.attempt <= sl.retries
       THEN [removed EXCEPT !.timer = TRUE]
       ELSE resolved(removed, "false")

\* mutant: after the last attempt nothing is resolved
scriptFailedSilently(sl) ==
    LET removed == [sl EXCEPT !.loading = FALSE, !.inHead = @ - 1, !.failures = @ + 1]
    IN IF sl.attempt < sl.retries
       THEN [removed EXCEPT !.timer = TRUE]
       ELSE removed

\* scriptElement.onerror: the element is removed; another attempt is scheduled
\* when attempt < retries, and the promise resolves false otherwise
scriptFailed(sl) ==
    LET removed == [sl EXCEPT !.loading = FALSE, !.inHead = @ - 1, !.failures = @ + 1]
    IN IF sl.attempt < sl.retries
       THEN [removed EXCEPT !.timer = TRUE]
       ELSE resolved(removed, "false")

\* the callback of setTimeout(() => loadScript(attempt + 1), delay)
scriptRetried(sl) == loadScript(sl, sl.attempt + 1)

\* loadLiveEditorScript(2, 3000, debug, url) as the backend and the
\* post-processor call it
CallerRetries == 2

ProcessorName == "contentstorage"

\* mutant: the name is pushed without looking for it
registeredAlwaysPushed(pp) ==
    LET present == IF pp.kind \in {"absent", "false"} \/ pp = PostProcessString("")
                   THEN PostProcessArray(<<>>) ELSE pp
    IN PostProcessArray(Append(present.items, ProcessorName))

\* postProcess after registerPostProcessor: created when falsy, wrapped
\* when not an array, the name pushed when it is not in it
registered(pp) ==
    LET present == IF pp.kind \in {"absent", "false"} \/ pp = PostProcessString("")
                   THEN PostProcessArray(<<>>) ELSE pp
        array == PostProcessArray(present.items)
    IN IF \E i \in 1 .. Len(array.items) : array.items[i] = ProcessorName
       THEN array
       ELSE PostProcessArray(Append(array.items, ProcessorName))

\* mutant: the instance takes itself to be in live mode
constructedProcessorAlwaysLive(forceLiveMode) ==
    [constructed |-> TRUE, isLiveMode |-> TRUE]

\* new ContentstorageLiveEditorPostProcessor(options): the instance
constructedProcessor(forceLiveMode) ==
    [constructed |-> TRUE, isLiveMode |-> detectLiveEditorMode(forceLiveMode)]

\* ContentstorageBackend.init; in live mode it initializes the memory map,
\* constructs the post-processor with the same options (which initializes
\* the memory map again) and registers it in the i18next init options
init ==
    /\ options' = withDefaults(options)
    /\ isLiveMode' = detectLiveEditorMode(options.forceLiveMode)
    /\ initialized' = TRUE
    /\ IF isLiveMode'
       THEN /\ processor' = constructedProcessor(options.forceLiveMode)
            /\ postProcess' = registered(postProcess)
            /\ scriptLoad' = started(started(scriptLoad, CallerRetries), CallerRetries)
       ELSE UNCHANGED <<processor, postProcess, scriptLoad>>
    /\ LET st == IF isLiveMode' THEN initializedStore(initializedStore(Store)) ELSE Store
       IN /\ hasMemoryMap' = st.has
          /\ memoryMap' = st.map
          /\ mapsCreated' = st.created
    /\ Remember(Call("init", "", <<>>, Undefined, Undefined, None, 0))
    /\ UNCHANGED <<browser, now, pureVars, helperVars, processCall, returned, inIframe, hasMarker, topThrows, reads>>

\* a call of the backend that belongs to read i
ReadCall(op, i) ==
    [Call(op, "", <<>>, reads[i].namespace, reads[i].language, None, 0) EXCEPT !.read = i]

\* String.prototype.toUpperCase on the language codes in use
toUpperCase(language) ==
    CASE language = "en" -> "EN"
      [] language = "EN" -> "EN"
      [] language = "pt-BR" -> "PT-BR"
      [] OTHER -> language

\* a URL is the sequence of the pieces it is put together from; a loadPath
\* string is the sequence of its literal pieces and placeholders
PlaceholderLng == "{{lng}}"
PlaceholderNs == "{{ns}}"
DefaultCdnBaseUrl == "https://cdn.contentstorage.app"
Thrown == <<"Error">>
LoadPathFunction == [kind |-> "function", template |-> <<>>]
LoadPathString(template) == [kind |-> "string", template |-> template]
\* what the loadPath function of the configurations returns
loadPathResult(language, namespace) == <<"fn", language, namespace>>

\* ContentstorageBackend.getLoadPath: the URL, or Thrown
getLoadPath(language, namespace) ==
    IF options.loadPath # None /\ options.loadPath[1].kind = "function"
    THEN loadPathResult(language, namespace)
    ELSE IF options.loadPath # None
    THEN replace(replace(options.loadPath[1].template, PlaceholderLng, language),
                 PlaceholderNs, namespace)
    ELSE IF options.contentKey = Undefined \/ options.contentKey = "" THEN Thrown
    ELSE <<DefaultCdnBaseUrl, "/", options.contentKey, "/content/",
           toUpperCase(language), ".json">>

\* what the callback passed to read does when it is called
Callbacks == {"returns", "throws"}

\* ContentstorageBackend.read up to the fetch: loadTranslations has computed
\* the URL (or thrown) and the request, if any, is in flight
read(language, namespace, callback) ==
    /\ Len(reads) < MaxReads
    /\ reads' = Append(reads, [language |-> language, namespace |-> namespace,
                               url |-> getLoadPath(language, namespace),
                               callback |-> callback,
                               state |-> "pending", payload |-> 0, callbacks |-> 0,
                               cause |-> "none"])
    /\ Remember([Call("read", "", <<>>, namespace, language, None, 0)
                    EXCEPT !.read = Len(reads) + 1])
    /\ UNCHANGED <<browser, hasMemoryMap, memoryMap, mapsCreated, now, pureVars, helperVars, processorVars, scriptVars,
                   inIframe, hasMarker, topThrows, options, isLiveMode, initialized>>

\* the map after trackTranslations(translations, namespace, language): every
\* non-empty leaf is tracked under its flattened key, with no namespace and
\* no variables; ts[i] is the clock at the i-th leaf
RECURSIVE trackedAll(_, _, _, _)
trackedAll(m, flatTranslations, language, ts) ==
    IF flatTranslations = <<>> THEN m
    ELSE LET leaf == flatTranslations[1]
             tracked == IF leaf.value = "" THEN m
                        ELSE mapSet(m, leaf.value,
                                    trackedEntry(m, leaf.value, leaf.key, Undefined,
                                                 language, None, ts[1]))
         IN trackedAll(tracked, Tail(flatTranslations), language, Tail(ts))

\* the characters of the namespace names in use
charsOf(namespace) ==
    CASE namespace = "common" -> <<"c", "o", "m", "m", "o", "n">>
      [] namespace = "other" -> <<"o", "t", "h", "e", "r">>
      [] OTHER -> <<>>

\* mutant: the leaves are tracked under the namespace and their path
trackTranslationsPrefixed(m, translations, namespace, language, ts) ==
    IF memoryMapAvailable
    THEN trackedAll(m, flattenTranslations(translations, charsOf(namespace)), language, ts)
    ELSE m

\* the namespace is used for the debug message only
trackTranslations(m, translations, namespace, language, ts) ==
    IF memoryMapAvailable
    THEN trackedAll(m, flattenTranslations(translations, <<>>), language, ts)
    ELSE m

\* if (this.options.maxMemoryMapSize) cleanupMemoryMap(this.options.maxMemoryMapSize)
cleanedIfConfigured(m) ==
    IF options.maxMemoryMapSize # None /\ options.maxMemoryMapSize[1] # 0 /\ memoryMapAvailable
    THEN cleaned(m, options.maxMemoryMapSize[1])
    ELSE m

\* non-decreasing clock readings, one for each of n leaves
Timestamps(n) ==
    {ts \in [1 .. n -> now .. MaxClock] : \A i, j \in 1 .. n : i < j => ts[i] <= ts[j]}

\* mutant: the eviction runs before the payload is tracked
loadedEvictFirst(m, translations, namespace, language, ts) ==
    trackTranslations(cleanedIfConfigured(m), translations, namespace, language, ts)

\* the map the then-handler leaves: trackTranslations, then the cleanup
loaded(m, translations, namespace, language, ts) ==
    cleanedIfConfigured(trackTranslations(m, translations, namespace, language, ts))

\* the fetch of read i delivers payload p: the promise's then-handler tracks,
\* cleans up and calls back, in one turn; when the callback throws, the
\* catch-handler chained after it calls the callback again, with the error
resolve(i, p) ==
    /\ i \in 1 .. Len(reads)
    /\ reads[i].state = "pending"
    /\ reads[i].url # Thrown
    /\ LET translations == Payloads[p]
           n == Len(flattenTranslations(translations, <<>>))
       IN IF isLiveMode /\ shouldTrackNamespace(reads[i].namespace)
          THEN \E ts \in Timestamps(n) :
                  /\ memoryMap' = loaded(memoryMap, translations, reads[i].namespace,
                                         reads[i].language, ts)
                  /\ now' = IF memoryMapAvailable /\ n > 0 THEN ts[n] ELSE now
          ELSE UNCHANGED <<memoryMap, now>>
    /\ reads' = [reads EXCEPT ![i].state = "loaded", ![i].payload = p,
                              ![i].callbacks = IF reads[i].callback = "throws"
                                               THEN @ + 2 ELSE @ + 1]
    /\ Remember(ReadCall("resolve", i))
    /\ UNCHANGED <<browser, hasMemoryMap, mapsCreated, pureVars, helperVars, processorVars, scriptVars,
                   inIframe, hasMarker, topThrows, options, isLiveMode, initialized>>

\* why obtaining the payload of a read can fail
FailureCauses == {"contentKey", "status", "network", "request"}

\* obtaining the payload of read i fails (getLoadPath threw, the response was
\* not OK, fetch or the request function rejected): the catch-handler calls
\* back with the error
reject(i, cause) ==
    /\ i \in 1 .. Len(reads)
    /\ reads[i].state = "pending"
    /\ cause \in FailureCauses
    /\ cause = "contentKey" <=> reads[i].url = Thrown
    /\ cause = "request" => options.request
    /\ cause \in {"status", "network"} => ~options.request
    /\ reads' = [reads EXCEPT ![i].state = "failed", ![i].callbacks = @ + 1,
                              ![i].cause = cause]
    /\ Remember(ReadCall("reject", i))
    /\ UNCHANGED <<browser, hasMemoryMap, memoryMap, mapsCreated, now, pureVars, helperVars, processorVars, scriptVars,
                   inIframe, hasMarker, topThrows, options, isLiveMode, initialized>>

\* A backend instance constructed with some options, on a page that is or is
\* not inside the live editor, or on a server
InitBackend ==
    /\ browser \in BOOLEAN
    /\ hasMemoryMap = FALSE
    /\ memoryMap = <<>>
    /\ now = 1
    /\ nOps = 0
    /\ lastCall = NoCall
    /\ before = <<>>
    /\ hadMemoryMap = FALSE
    /\ mapsCreated = 0
    /\ PureIdle
    /\ \E force \in BOOLEAN, max \in MaxMemoryMapSizeOptions, ns \in TrackNamespacesOptions :
          options = [forceLiveMode |-> force, maxMemoryMapSize |-> max, trackNamespaces |-> ns,
                     loadPath |-> None, contentKey |-> "key", cdnBaseUrl |-> Undefined,
                     request |-> FALSE]
    \* the page is framed by the live editor or not, where that decides the mode
    /\ inIframe \in {FALSE, browser /\ ~options.forceLiveMode}
    /\ hasMarker = inIframe
    /\ topThrows = FALSE
    /\ isLiveMode = FALSE
    /\ initialized = FALSE
    /\ reads = <<>>
    /\ ProcessorIdle
    /\ ScriptIdle

NextBackend ==
    \/ init
    \/ \E language \in ReadLanguages, namespace \in ReadNamespaces :
          read(language, namespace, "returns")
    \/ \E i \in 1 .. MaxReads, p \in 1 .. Len(Payloads) : resolve(i, p)
    \/ \E i \in 1 .. MaxReads : reject(i, "status")

SpecBackend == InitBackend /\ [][NextBackend]_vars

\* The loading specification: a live-mode backend in a browser, configured
\* with any of the ways to name the source, and read calls that succeed or fail
TemplateLngNs == <<"/locales/", PlaceholderLng, "/", PlaceholderNs, ".json">>
TemplatePlain == <<"/static/all.json">>
TemplateLngTwice == <<"/", PlaceholderLng, "/", PlaceholderNs, ".", PlaceholderLng, ".json">>
LoadPathOptions ==
    {None, Some(LoadPathFunction), Some(LoadPathString(TemplateLngNs)),
     Some(LoadPathString(TemplatePlain)), Some(LoadPathString(TemplateLngTwice))}
ContentKeyOptions == {Undefined, "", "key"}
CustomCdnBaseUrl == "https://my.cdn"
CdnBaseUrlOptions == {Undefined, CustomCdnBaseUrl}
LoadLanguages == {"en", "pt-BR"}

InitRead ==
    /\ StoreIdle
    /\ PureIdle
    /\ inIframe = FALSE
    /\ hasMarker = FALSE
    /\ topThrows = FALSE
    /\ \E loadPath \in LoadPathOptions, contentKey \in ContentKeyOptions,
          cdnBaseUrl \in CdnBaseUrlOptions, request \in BOOLEAN :
          options = [forceLiveMode |-> TRUE, maxMemoryMapSize |-> None,
                     trackNamespaces |-> None, loadPath |-> loadPath,
                     contentKey |-> contentKey, cdnBaseUrl |-> cdnBaseUrl,
                     request |-> request]
    /\ isLiveMode = FALSE
    /\ initialized = FALSE
    /\ reads = <<>>
    /\ ProcessorIdle
    /\ ScriptIdle

NextRead ==
    \/ init
    \/ \E language \in LoadLanguages, namespace \in ReadNamespaces, callback \in Callbacks :
          Len(reads) < MaxLoads /\ read(language, namespace, callback)
    \/ \E i \in 1 .. MaxLoads : resolve(i, 1)
    \/ \E i \in 1 .. MaxLoads, cause \in FailureCauses : reject(i, cause)

SpecRead == InitRead /\ [][NextRead]_vars

\* ------------------------------------------------------------------ the post-processor
\* new ContentstorageLiveEditorPostProcessor(options)
construct(forceLiveMode) ==
    /\ processor' = constructedProcessor(forceLiveMode)
    /\ scriptLoad' = IF processor'.isLiveMode THEN started(scriptLoad, CallerRetries)
                     ELSE scriptLoad
    /\ LET st == IF processor'.isLiveMode THEN initializedStore(Store) ELSE Store
       IN /\ hasMemoryMap' = st.has
          /\ memoryMap' = st.map
          /\ mapsCreated' = st.created
    /\ Remember(Call("construct", "", <<>>, Undefined, Undefined, None, 0))
    /\ UNCHANGED <<browser, now, pureVars, helperVars, backendVars,
                   postProcess, processCall, returned>>

\* a key argument: one key, or an array of fallback keys
OneKey(k) == [isArray |-> FALSE, keys |-> <<k>>]
KeyArray(keys) == [isArray |-> TRUE, keys |-> keys]

\* mutant: the last fallback key is taken
translationKeyLast(k) == k.keys[Len(k.keys)]

\* Array.isArray(key) ? key[0] : key
translationKeyOf(k) == k.keys[1]

\* the namespace names that occur in front of a colon, from their characters
stringOf(chars) ==
    CASE chars = <<>> -> ""
      [] chars = <<"n">> -> "n"
      [] chars = <<"a">> -> "a"
      [] chars = <<"c", "o", "m", "m", "o", "n">> -> "common"
      [] OTHER -> "?"

\* mutant: the namespace is what follows the first colon
namespaceOfAfterColon(translationKey) ==
    IF includes(translationKey, ":")
    THEN stringOf(SubSeq(translationKey, indexOf(translationKey, ":") + 1,
                         Len(translationKey)))
    ELSE Undefined

\* [namespace] = translationKey.split(':') when the key includes a colon
namespaceOf(translationKey) ==
    IF includes(translationKey, ":")
    THEN stringOf(SubSeq(translationKey, 1, indexOf(translationKey, ":") - 1))
    ELSE Undefined

\* options?.lng || translator?.language
languageOf(lng, language) ==
    IF lng # Undefined /\ lng # "" THEN lng ELSE language

\* the names i18next reserves among the options of a call
ReservedOptionNames == {"lng", "ns", "defaultValue", "count", "context", "_internal"}

\* the options that are the caller's own, or nothing when there are none
extractUserVariables(pairs) ==
    LET user == {pair \in pairs : pair[1] \notin ReservedOptionNames}
    IN IF user = {} THEN None ELSE Some(user)

\* mutant: the text comes back marked as tracked
processedMarked(value) == IF value = "" THEN value ELSE "Welcome*"

\* return value: the text handed in
processed(value) == value

\* ContentstorageLiveEditorPostProcessor.process(value, key, options,
\* translator), with lng and pairs from options and language from translator
process(value, k, lng, pairs, language) ==
    /\ processor.constructed
    /\ processCall' = [value |-> value, key |-> k, lng |-> lng, pairs |-> pairs,
                       language |-> language]
    /\ returned' = processed(value)
    /\ IF processor.isLiveMode
       THEN LET translationKey == translationKeyOf(k)
                namespace == namespaceOf(translationKey)
                variables == extractUserVariables(pairs)
            IN /\ IF memoryMapAvailable
                  THEN \E t \in now .. MaxClock :
                          /\ now' = t
                          /\ memoryMap' =
                                mapSet(memoryMap, value,
                                       trackedEntry(memoryMap, value, translationKey, namespace,
                                                    languageOf(lng, language), variables, t))
                  ELSE UNCHANGED <<now, memoryMap>>
               /\ Record(Call("track", value, translationKey, namespace,
                              languageOf(lng, language), variables, 0))
       ELSE /\ UNCHANGED <<now, memoryMap>>
            /\ Record(Call("process", value, <<>>, Undefined, Undefined, None, 0))
    /\ UNCHANGED <<browser, hasMemoryMap, mapsCreated, pureVars, helperVars, backendVars,
                   processor, postProcess, scriptVars>>

\* The post-processor specification: an instance constructed by the
\* application, on a page inside or outside the live editor or on a server
ProcessKeys ==
    {OneKey(KeyK), OneKey(KeyNColonK), OneKey(<<":", "k">>), OneKey(KeyABC),
     KeyArray(<<KeyNColonK, KeyK>>), KeyArray(<<KeyK, KeyNColonK>>)}
ProcessValues == {"", "Welcome"}
ProcessLngs == {Undefined, "", "de"}
TranslatorLanguages == {Undefined, "en"}
ProcessPairs == {{}, {<<"a", 1>>, <<"count", 2>>}}

InitProcessor ==
    /\ browser \in BOOLEAN
    /\ hasMemoryMap = FALSE
    /\ memoryMap = <<>>
    /\ now = 1
    /\ nOps = 0
    /\ lastCall = NoCall
    /\ before = <<>>
    /\ hadMemoryMap = FALSE
    /\ mapsCreated = 0
    /\ PureIdle
    /\ inIframe \in BOOLEAN
    /\ hasMarker \in BOOLEAN
    /\ topThrows = FALSE
    /\ options = [forceLiveMode |-> FALSE, maxMemoryMapSize |-> None, trackNamespaces |-> None,
                  loadPath |-> None, contentKey |-> Undefined, cdnBaseUrl |-> Undefined,
                  request |-> FALSE]
    /\ isLiveMode = FALSE
    /\ initialized = FALSE
    /\ reads = <<>>
    /\ ProcessorIdle
    /\ ScriptIdle

NextProcessor ==
    \/ \E forceLiveMode \in BOOLEAN : construct(forceLiveMode)
    \/ \E value \in ProcessValues, k \in ProcessKeys, lng \in ProcessLngs,
          pairs \in ProcessPairs, language \in TranslatorLanguages :
          nOps < MaxProcessCalls /\ process(value, k, lng, pairs, language)

SpecProcessor == InitProcessor /\ [][NextProcessor]_vars

\* The plugin specification: a backend and the post-processor, constructed
\* with the same options, with the i18next init options of the application
PostProcessOptions ==
    {PostProcessAbsent, PostProcessFalse, PostProcessString("sprintf"),
     PostProcessString(ProcessorName), PostProcessArray(<<>>),
     PostProcessArray(<<ProcessorName, "sprintf">>),
     PostProcessArray(<<"sprintf", "interval">>),
     PostProcessArray(<<ProcessorName, ProcessorName>>)}

InitPlugin ==
    /\ browser \in BOOLEAN
    /\ hasMemoryMap \in {FALSE, browser}     \* a page may have the map from earlier
    /\ memoryMap = <<>>
    /\ now = 1
    /\ nOps = 0
    /\ lastCall = NoCall
    /\ before = <<>>
    /\ hadMemoryMap = FALSE
    /\ mapsCreated = 0
    /\ PureIdle
    /\ \E force \in BOOLEAN :
          options = [forceLiveMode |-> force, maxMemoryMapSize |-> None,
                     trackNamespaces |-> None, loadPath |-> None, contentKey |-> "key",
                     cdnBaseUrl |-> Undefined, request |-> FALSE]
    \* iframe and URL marker, each present or not, where they decide the mode
    /\ inIframe \in {FALSE, browser /\ ~options.forceLiveMode}
    /\ hasMarker \in {FALSE, browser /\ ~options.forceLiveMode}
    /\ topThrows = FALSE
    /\ isLiveMode = FALSE
    /\ initialized = FALSE
    /\ reads = <<>>
    /\ processor = [constructed |-> FALSE, isLiveMode |-> FALSE]
    /\ postProcess \in PostProcessOptions
    /\ processCall = NoProcessCall
    /\ returned = ""
    /\ ScriptIdle

NextPlugin ==
    \/ init
    \/ construct(options.forceLiveMode)
    \/ Len(reads) < MaxLoads /\ read("en", "common", "returns")
    \/ \E i \in 1 .. MaxLoads, p \in 1 .. Len(Payloads) : resolve(i, p)
    \/ \E i \in 1 .. MaxLoads : reject(i, "status")
    \/ \E k \in {OneKey(KeyK), KeyArray(<<KeyNColonK, KeyK>>)} :
          nOps < MaxProcessCalls /\ process("Welcome", k, Undefined, {}, "en")

SpecPlugin == InitPlugin /\ [][NextPlugin]_vars

\* ------------------------------------------------------------------ the live editor script
\* a call of loadLiveEditorScript(retries, delay, debug) by the application
loadLiveEditorScript(retries) ==
    /\ scriptLoad' = started(scriptLoad, retries)
    /\ Record(Call("loadLiveEditorScript", "", <<>>, Undefined, Undefined, None, 0))
    /\ UNCHANGED <<browser, hasMemoryMap, memoryMap, mapsCreated, now, pureVars, helperVars,
                   backendVars, processorVars>>

\* the browser fires load on the script element that is being fetched
onload ==
    /\ scriptLoad.loading
    /\ scriptLoad' = scriptLoaded(scriptLoad)
    /\ Remember(Call("onload", "", <<>>, Undefined, Undefined, None, 0))
    /\ UNCHANGED <<browser, hasMemoryMap, memoryMap, mapsCreated, now, pureVars, helperVars,
                   backendVars, processorVars>>

\* the browser fires error on the script element that is being fetched
onerror ==
    /\ scriptLoad.loading
    /\ scriptLoad' = scriptFailed(scriptLoad)
    /\ Remember(Call("onerror", "", <<>>, Undefined, Undefined, None, 0))
    /\ UNCHANGED <<browser, hasMemoryMap, memoryMap, mapsCreated, now, pureVars, helperVars,
                   backendVars, processorVars>>

\* the delay has elapsed: the timer set by onerror runs its callback
timeout ==
    /\ scriptLoad.timer
    /\ scriptLoad' = scriptRetried(scriptLoad)
    /\ Remember(Call("timeout", "", <<>>, Undefined, Undefined, None, 0))
    /\ UNCHANGED <<browser, hasMemoryMap, memoryMap, mapsCreated, now, pureVars, helperVars,
                   backendVars, processorVars>>

\* The script specification: the application, a backend and a post-processor
\* call loadLiveEditorScript, on a page or on a server; the browser reports
\* each script element as loaded or failed
InitScript ==
    /\ browser \in BOOLEAN
    /\ hasMemoryMap = FALSE
    /\ memoryMap = <<>>
    /\ now = 1
    /\ nOps = 0
    /\ lastCall = NoCall
    /\ before = <<>>
    /\ hadMemoryMap = FALSE
    /\ mapsCreated = 0
    /\ PureIdle
    /\ inIframe = FALSE
    /\ hasMarker = FALSE
    /\ topThrows = FALSE
    /\ \E force \in BOOLEAN :
          options = [forceLiveMode |-> force, maxMemoryMapSize |-> None,
                     trackNamespaces |-> None, loadPath |-> None, contentKey |-> "key",
                     cdnBaseUrl |-> Undefined, request |-> FALSE]
    /\ isLiveMode = FALSE
    /\ initialized = FALSE
    /\ reads = <<>>
    /\ ProcessorIdle
    /\ ScriptIdle

NextScript ==
    \/ \E retries \in 0 .. MaxRetries :
          nOps < MaxScriptCalls /\ loadLiveEditorScript(retries)
    \/ init
    \/ construct(options.forceLiveMode)
    \/ onload
    \/ onerror
    \/ timeout

SpecScript == InitScript /\ [][NextScript]_vars

\* every script element that is inserted eventually fires load or error, and
\* a timer that was set eventually runs
SpecScriptFair ==
    /\ SpecScript
    /\ WF_vars(onload \/ onerror)
    /\ WF_vars(timeout)

\* ------------------------------------------------------------------ outside a browser
\* The server specification: no window and no document; the store functions,
\* a backend and a post-processor, with and without forceLiveMode
InitServer ==
    /\ browser = FALSE
    /\ hasMemoryMap = FALSE
    /\ memoryMap = <<>>
    /\ now = 1
    /\ nOps = 0
    /\ lastCall = NoCall
    /\ before = <<>>
    /\ hadMemoryMap = FALSE
    /\ mapsCreated = 0
    /\ PureIdle
    /\ inIframe = FALSE
    /\ hasMarker = FALSE
    /\ topThrows = FALSE
    /\ \E force \in BOOLEAN, max \in {None, Some(1)} :
          options = [forceLiveMode |-> force, maxMemoryMapSize |-> max,
                     trackNamespaces |-> None, loadPath |-> None, contentKey |-> "key",
                     cdnBaseUrl |-> Undefined, request |-> FALSE]
    /\ isLiveMode = FALSE
    /\ initialized = FALSE
    /\ reads = <<>>
    /\ ProcessorIdle
    /\ ScriptIdle

NextServer ==
    \/ nOps < MaxServerOps /\ initializeMemoryMap
    \/ nOps < MaxServerOps /\ getMemoryMap
    \/ nOps < MaxServerOps /\
          \E v \in {"Welcome", "Goodbye"}, k \in {KeyK, KeyNColonK} :
             trackTranslation(v, k, Undefined, "en", None)
    \/ nOps < MaxServerOps /\ \E maxSize \in MaxSizes : cleanupMemoryMap(maxSize)
    \/ init
    \/ construct(options.forceLiveMode)
    \/ Len(reads) < MaxLoads /\ read("en", "common", "returns")
    \/ \E i \in 1 .. MaxLoads, p \in 1 .. Len(Payloads) : resolve(i, p)
    \/ \E i \in 1 .. MaxLoads : reject(i, "status")
    \/ \E k \in {OneKey(KeyK), KeyArray(<<KeyNColonK, KeyK>>)} :
          nOps < MaxServerOps /\ process("Welcome", k, Undefined, {}, "en")

SpecServer == InitServer /\ [][NextServer]_vars

\* ------------------------------------------------------------------ pure functions
\* A key and a namespace argument are drawn, normalizeKey is applied to the
\* key and then once more to its own result.
InitPure ==
    /\ StoreIdle
    /\ BackendIdle
    /\ HelperIdle
    /\ key \in GeneratedKeys
    /\ namespaceArg \in NamespaceArgs
    /\ normalizedKey = <<>>
    /\ renormalizedKey = <<>>
    /\ pc = "input"

Normalize ==
    /\ pc = "input"
    /\ normalizedKey' = normalizeKey(key, namespaceArg)
    /\ pc' = "normalized"
    /\ UNCHANGED <<key, namespaceArg, renormalizedKey, storeVars, backendVars, helperVars, processorVars, scriptVars>>

Renormalize ==
    /\ pc = "normalized"
    /\ renormalizedKey' = normalizeKey(normalizedKey, namespaceArg)
    /\ pc' = "renormalized"
    /\ UNCHANGED <<key, namespaceArg, normalizedKey, storeVars, backendVars, helperVars, processorVars, scriptVars>>

NextPure ==
    \/ Normalize
    \/ Renormalize

SpecPure == InitPure /\ [][NextPure]_vars

\* ------------------------------------------------------------------ helper functions
MaxProps == 2

\* the translation objects flattenTranslations is applied to
TreeKeys == {<<"a">>, <<"d">>, <<>>}
Leaves == {StringNode("x"), StringNode("y"), NumberNode, ArrayNode, NullNode}
InnerObjects ==
    {ObjectNode(<<>>)} \cup {ObjectNode(<<Property(k, leaf)>>) : k \in TreeKeys, leaf \in Leaves}
InnerNodes == Leaves \cup InnerObjects
\* objects of n properties with distinct keys, in every enumeration order
ObjectsOf(n) ==
    {obj \in [1 .. n -> {Property(k, node) : k \in TreeKeys, node \in InnerNodes}] :
        \A i, j \in 1 .. n : i # j => obj[i].key # obj[j].key}
GeneratedTrees == UNION {ObjectsOf(n) : n \in 0 .. MaxProps}
\* { a: 'x', b: 5, c: { d: 'y' } }
TreeSpecExample ==
    <<Property(<<"a">>, StringNode("x")),
      Property(<<"b">>, NumberNode),
      Property(<<"c">>, ObjectNode(<<Property(<<"d">>, StringNode("y"))>>))>>
\* { c: { w: 'x', g: 'y' }, p: { h: { t: 'x' } } }
TreeThreeLevels ==
    <<Property(<<"c">>, ObjectNode(<<Property(<<"w">>, StringNode("x")),
                                     Property(<<"g">>, StringNode("y"))>>)),
      Property(<<"p">>, ObjectNode(<<Property(<<"h">>,
                            ObjectNode(<<Property(<<"t">>, StringNode("x"))>>))>>))>>
Trees == GeneratedTrees \cup {TreeSpecExample, TreeThreeLevels}

InitFlatten ==
    /\ StoreIdle
    /\ BackendIdle
    /\ key = <<>>
    /\ namespaceArg = None
    /\ normalizedKey = <<>>
    /\ renormalizedKey = <<>>
    /\ pc = "idle"
    /\ input \in Trees
    /\ output = <<>>
    /\ outputAgain = <<>>
    /\ step = "input"

Flatten ==
    /\ step = "input"
    /\ output' = flattenTranslations(input, <<>>)
    /\ step' = "called"
    /\ UNCHANGED <<input, outputAgain, storeVars, pureVars, backendVars, processorVars, scriptVars>>

FlattenAgain ==
    /\ step = "called"
    /\ outputAgain' = flattenTranslations(input, <<>>)
    /\ step' = "again"
    /\ UNCHANGED <<input, output, storeVars, pureVars, backendVars, processorVars, scriptVars>>

NextFlatten ==
    \/ Flatten
    \/ FlattenAgain

SpecFlatten == InitFlatten /\ [][NextFlatten]_vars

\* the alternatives of /_(zero|one|two|few|many|other|plural)$/
PluralSuffixes ==
    {<<"z", "e", "r", "o">>,
     <<"o", "n", "e">>,
     <<"t", "w", "o">>,
     <<"f", "e", "w">>,
     <<"m", "a", "n", "y">>,
     <<"o", "t", "h", "e", "r">>,
     <<"p", "l", "u", "r", "a", "l">>}

endsWith(s, suffix) ==
    /\ Len(s) >= Len(suffix)
    /\ SubSeq(s, Len(s) - Len(suffix) + 1, Len(s)) = suffix

lastIndexOf(s, c) ==
    IF includes(s, c) THEN CHOOSE i \in 1 .. Len(s) : s[i] = c /\ \A j \in (i + 1) .. Len(s) : s[j] # c
    ELSE 0

\* mutant: whatever follows the last underscore is removed
extractBaseKeyAnySuffix(k) ==
    IF lastIndexOf(k, "_") > 0 THEN SubSeq(k, 1, lastIndexOf(k, "_") - 1) ELSE k

\* key.replace(/_(zero|one|two|few|many|other|plural)$/, ''); the context
\* heuristic that follows in the source changes nothing
extractBaseKey(k) ==
    IF \E s \in PluralSuffixes : endsWith(k, <<"_">> \o s)
    THEN LET s == CHOOSE s \in PluralSuffixes : endsWith(k, <<"_">> \o s)
         IN SubSeq(k, 1, Len(k) - Len(s) - 1)
    ELSE k

\* the keys extractBaseKey is applied to: a stem followed by an ending
Stems ==
    {<<>>, <<"i", "t", "e", "m", "s">>, <<"h", "e", "l", "l", "o">>,
     <<"f", "r", "i", "e", "n", "d">>, <<"a", "_", "b">>}
Endings ==
    {<<"_">> \o s : s \in PluralSuffixes} \cup
    {<<>>, <<"_">>, <<"_", "w", "o", "r", "l", "d">>, <<"_", "m", "a", "l", "e">>, <<"_", "O", "n", "e">>,
     <<"_", "o", "n", "e", "s">>, <<"o", "n", "e">>, <<"_", "o", "n", "e", "_">>}
BaseKeyInputs == {stem \o ending : stem \in Stems, ending \in Endings}

InitBaseKey ==
    /\ StoreIdle
    /\ BackendIdle
    /\ key = <<>>
    /\ namespaceArg = None
    /\ normalizedKey = <<>>
    /\ renormalizedKey = <<>>
    /\ pc = "idle"
    /\ input \in BaseKeyInputs
    /\ output = <<>>
    /\ outputAgain = <<>>
    /\ step = "input"

ExtractBaseKey ==
    /\ step = "input"
    /\ output' = extractBaseKey(input)
    /\ step' = "called"
    /\ UNCHANGED <<input, outputAgain, storeVars, pureVars, backendVars, processorVars, scriptVars>>

NextBaseKey ==
    \/ ExtractBaseKey

SpecBaseKey == InitBaseKey /\ [][NextBaseKey]_vars

\* The detection specification: detectLiveEditorMode on every environment
DefaultLiveEditorParam == "contentstorage_live_editor"
QueryNames == {DefaultLiveEditorParam, "custom_editor", "page"}
LiveEditorParams == {DefaultLiveEditorParam, "custom_editor"}

InitDetect ==
    /\ browser \in BOOLEAN
    /\ hasMemoryMap = FALSE
    /\ memoryMap = <<>>
    /\ now = 1
    /\ nOps = 0
    /\ lastCall = NoCall
    /\ before = <<>>
    /\ hadMemoryMap = FALSE
    /\ mapsCreated = 0
    /\ key = <<>>
    /\ namespaceArg = None
    /\ normalizedKey = <<>>
    /\ renormalizedKey = <<>>
    /\ pc = "idle"
    /\ input \in [query : SUBSET QueryNames, liveEditorParam : LiveEditorParams,
                   forceLiveMode : BOOLEAN]
    /\ output = <<>>
    /\ outputAgain = <<>>
    /\ step = "input"
    /\ inIframe \in BOOLEAN
    /\ hasMarker = has(input.query, input.liveEditorParam)
    /\ topThrows \in BOOLEAN
    /\ options = [forceLiveMode |-> input.forceLiveMode, maxMemoryMapSize |-> None,
                  trackNamespaces |-> None, loadPath |-> None, contentKey |-> Undefined,
                  cdnBaseUrl |-> Undefined, request |-> FALSE]
    /\ isLiveMode = FALSE
    /\ initialized = FALSE
    /\ reads = <<>>
    /\ ProcessorIdle
    /\ ScriptIdle

DetectLiveEditorMode ==
    /\ step = "input"
    /\ output' = <<detectLiveEditorMode(input.forceLiveMode)>>
    /\ step' = "called"
    /\ UNCHANGED <<input, outputAgain, storeVars, pureVars, backendVars, processorVars, scriptVars>>

NextDetect ==
    \/ DetectLiveEditorMode

SpecDetect == InitDetect /\ [][NextDetect]_vars

\* ------------------------------------------------------------------ claims: normalizeKey
colons(s) == Cardinality({i \in 1 .. Len(s) : s[i] = ":"})

\* C1 (as stated): normalizing twice gives the same as normalizing once, for
\* every raw key, keys with two or more colons included.
C1_IdempotentAllKeys ==
    pc = "renormalized" => renormalizedKey = normalizedKey

\* C1 (amended): for every raw key with at most one colon, normalizing the
\* normalized key returns it unchanged.
C1_IdempotentAtMostOneColon ==
    (pc = "renormalized" /\ colons(key) <= 1) => renormalizedKey = normalizedKey

C1_Witness ==
    /\ pc = "renormalized"
    /\ colons(key) = 1
    /\ normalizedKey # key
    /\ renormalizedKey = normalizedKey

\* C2: only the first colon of the key becomes a dot and nothing else
\* changes; a key without a colon is returned as it is; 'common:welcome'
\* gives 'common.welcome' and 'a:b:c' gives 'a.b:c'.
C2_FirstColonOnly ==
    pc \in {"normalized", "renormalized"} =>
        /\ Len(normalizedKey) = Len(key)
        /\ colons(key) = 0 => normalizedKey = key
        /\ colons(key) > 0 =>
              \E i \in 1 .. Len(key) :
                  /\ key[i] = ":"
                  /\ \A j \in 1 .. (i - 1) : key[j] # ":"
                  /\ normalizedKey[i] = "."
                  /\ \A j \in (1 .. Len(key)) \ {i} : normalizedKey[j] = key[j]
        /\ key = KeyCommonWelcome =>
              normalizedKey = <<"c","o","m","m","o","n",".","w","e","l","c","o","m","e">>
        /\ key = KeyABC => normalizedKey = <<"a", ".", "b", ":", "c">>

C2_Witness ==
    /\ pc = "normalized"
    /\ key = KeyABC
    /\ normalizedKey = <<"a", ".", "b", ":", "c">>

Tracked == lastCall.op = "track" /\ browser /\ hadMemoryMap

entriesFor(m, v) == {i \in 1 .. Len(m) : m[i].value = v}

idsIn(m, v) == IF mapHas(m, v) THEN mapGet(m, v).ids ELSE {}

variablesIn(m, v) == IF mapHas(m, v) THEN mapGet(m, v).variables ELSE None

NoVariables(variables) == variables = None \/ variables = Some({})

\* C4: tracking a text value again merges into its one entry: after a track
\* of v with key k the store has exactly one entry for v, whose key set is the
\* key set it had before plus normalize(k); following a first track of v
\* (one key) that is two keys when the normalized keys differ and one when
\* they are equal.
C4_MergeKeys ==
    Tracked =>
        LET v == lastCall.value
            nk == normalizeKey(lastCall.key, None)
        IN /\ Cardinality(entriesFor(memoryMap, v)) = 1
           /\ idsIn(memoryMap, v) = idsIn(before, v) \cup {nk}
           /\ Cardinality(idsIn(before, v)) = 1 =>
                 Cardinality(idsIn(memoryMap, v)) = IF nk \in idsIn(before, v) THEN 1 ELSE 2

C4_Witness ==
    /\ Tracked
    /\ lastCall.value = "Welcome"
    /\ lastCall.key = KeyK
    /\ idsIn(before, "Welcome") = {KeyNDotK}
    /\ idsIn(memoryMap, "Welcome") = {KeyK, KeyNDotK}
    /\ Len(memoryMap) = 1

C8_EmptyValueNoOp ==
    (Tracked /\ lastCall.value = "") =>
        /\ memoryMap = before
        /\ ~mapHas(memoryMap, "")

\* C9: a track on a store that was never initialized creates no store and
\* records nothing, so the store a later initialize creates is empty.
C9_UninitializedNoOp ==
    /\ (lastCall.op = "track" /\ ~hadMemoryMap) => (~hasMemoryMap /\ memoryMap = <<>>)
    /\ ~hasMemoryMap => memoryMap = <<>>
    /\ (lastCall.op = "initialize" /\ browser /\ ~hadMemoryMap) =>
          (hasMemoryMap /\ memoryMap = <<>>)

C9_Witness ==
    /\ lastCall.op = "track"
    /\ lastCall.value = "Welcome"
    /\ browser
    /\ ~hadMemoryMap
    /\ ~hasMemoryMap
    /\ memoryMap = <<>>

\* ------------------------------------------------------------------ claims: cleanupMemoryMap
\* the last call was cleanupMemoryMap on an initialized store
Cleaned == lastCall.op = "cleanup" /\ browser /\ hadMemoryMap

entries(m) == {m[i] : i \in 1 .. Len(m)}

DistinctTrackedAt(m) ==
    \A i, j \in 1 .. Len(m) : i # j => m[i].trackedAt # m[j].trackedAt

\* C10: on a store of N entries with pairwise distinct trackedAt,
\* cleanup(M) with 0 <= M < N removes exactly N - M entries and leaves the M
\* entries with the largest trackedAt, untouched.
C10_EvictionBound ==
    (Cleaned /\ DistinctTrackedAt(before) /\ lastCall.maxSize < Len(before)) =>
        LET kept == entries(memoryMap)
            removed == entries(before) \ entries(memoryMap)
        IN /\ Len(memoryMap) = lastCall.maxSize
           /\ kept \subseteq entries(before)
           /\ Cardinality(kept) = lastCall.maxSize
           /\ Cardinality(removed) = Len(before) - lastCall.maxSize
           /\ \A e \in kept, r \in removed : r.trackedAt < e.trackedAt

C10_Witness ==
    /\ Cleaned
    /\ Len(before) = 3
    /\ DistinctTrackedAt(before)
    /\ lastCall.maxSize = 2
    /\ Len(memoryMap) = 2
    /\ before[1].trackedAt > before[2].trackedAt

\* C11: cleanup(maxSize) changes nothing when the store holds at most maxSize
\* entries, or when there is no store: the same entries, each unchanged.
C11_CleanupNoOp ==
    (lastCall.op = "cleanup" /\ (~(browser /\ hadMemoryMap) \/ Len(before) <= lastCall.maxSize)) =>
        /\ memoryMap = before
        /\ hasMemoryMap = hadMemoryMap

C11_Witness ==
    /\ Cleaned
    /\ Len(before) = 2
    /\ lastCall.maxSize = 2
    /\ memoryMap = before

\* C12: eviction goes by last-touch time, not by insertion: when v was
\* inserted before w but its trackedAt is strictly later than w's, a cleanup
\* that removes v removes w as well.
C12_LastTouchOrder ==
    Cleaned =>
        \A i, j \in 1 .. Len(before) :
            (i < j /\ before[i].trackedAt > before[j].trackedAt
                   /\ ~mapHas(memoryMap, before[i].value)) =>
                ~mapHas(memoryMap, before[j].value)

C12_Witness ==
    /\ Cleaned
    /\ Len(before) = 2
    /\ before[1].trackedAt > before[2].trackedAt
    /\ lastCall.maxSize = 1
    /\ memoryMap = <<before[1]>>

\* ------------------------------------------------------------------ C13
\* a live-mode read for a tracked namespace has just run its then-handler
\* and invoked the callback
ReadCalledBack ==
    /\ lastCall.op = "resolve"
    /\ isLiveMode
    /\ shouldTrackNamespace(lastCall.namespace)

\* C13: for every configured maxMemoryMapSize >= 0, when a live-mode read of
\* a tracked namespace invokes its callback, the store holds at most
\* maxMemoryMapSize entries.
C13_SizeCapAfterRead ==
    ReadCalledBack => Len(memoryMap) <= options.maxMemoryMapSize[1]

\* with a cap the code treats as set (non-zero) the bound does hold
C13_SizeCapNonZero ==
    (ReadCalledBack /\ options.maxMemoryMapSize[1] # 0) =>
        Len(memoryMap) <= options.maxMemoryMapSize[1]

\* ------------------------------------------------------------------ claims: store invariants
\* C14: in every state of the store reached by initialize, track and evict
\* calls, every entry has a non-empty key set and the type tag 'text'.
C14_EntriesWellFormed ==
    \A i \in 1 .. Len(memoryMap) :
        /\ memoryMap[i].ids # {}
        /\ memoryMap[i].type = "text"

C14_Witness ==
    /\ lastCall.op = "cleanup"
    /\ lastCall.maxSize = 1
    /\ Len(memoryMap) = 1
    /\ memoryMap = before
    /\ memoryMap[1].ids = {KeyNDotK}

\* C15: across a track or evict step, a value that has an entry before and
\* after the step has, after it, at least the keys it had before.
C15_IdsUnionOnly ==
    lastCall.op \in {"track", "cleanup"} =>
        \A v \in mapKeys(before) :
            mapHas(memoryMap, v) => idsIn(before, v) \subseteq idsIn(memoryMap, v)

C15_Witness ==
    /\ Tracked
    /\ lastCall.value = "Goodbye"
    /\ lastCall.key = KeyNColonK
    /\ idsIn(before, "Goodbye") = {KeyK}
    /\ idsIn(memoryMap, "Goodbye") = {KeyK, KeyNDotK}

\* C16: after a track(v, k, ns, lang) on an initialized store the entry for v
\* has namespace ns and language lang as passed in that call, an absent one
\* overwriting a stored one, and trackedAt is the clock value of the call.
C16_LatestWriteWins ==
    Tracked =>
        /\ mapHas(memoryMap, lastCall.value)
        /\ mapGet(memoryMap, lastCall.value).namespace = lastCall.namespace
        /\ mapGet(memoryMap, lastCall.value).language = lastCall.language
        /\ mapGet(memoryMap, lastCall.value).trackedAt = now

C16_Witness ==
    /\ Tracked
    /\ lastCall.value = "Welcome"
    /\ mapHas(before, "Welcome")
    /\ mapGet(before, "Welcome").namespace = "n"
    /\ mapGet(before, "Welcome").language = Undefined
    /\ lastCall.namespace = Undefined
    /\ lastCall.language = "en"
    /\ mapGet(memoryMap, "Welcome").namespace = Undefined
    /\ mapGet(memoryMap, "Welcome").trackedAt > mapGet(before, "Welcome").trackedAt

\* initializeMemoryMap has just run in a browser: called directly, or by a
\* backend init in live mode (which also constructs the post-processor)
InitializeCalled ==
    /\ browser
    /\ lastCall.op = "initialize" \/ (lastCall.op = "init" /\ isLiveMode)

\* C17: initialize is idempotent: the first call creates an empty store,
\* every later call leaves that store in place with its entries intact, the
\* store getMemoryMap hands out is that one, and the backend and the
\* post-processor initializing one after the other share it.
C17_InitializeIdempotent ==
    /\ InitializeCalled =>
          /\ hasMemoryMap
          /\ memoryMap = IF hadMemoryMap THEN before ELSE <<>>
    /\ hasMemoryMap => mapsCreated = 1
    /\ ~hasMemoryMap => mapsCreated = 0

C17_Witness ==
    /\ InitializeCalled
    /\ lastCall.op = "init"
    /\ hadMemoryMap
    /\ Len(before) = 2
    /\ memoryMap = before
    /\ mapsCreated = 1

\* C18: an entry present before a call is absent after it only if the call
\* is an evict made with more entries than maxSize.
C18_RemovedOnlyByEviction ==
    \A v \in mapKeys(before) :
        ~mapHas(memoryMap, v) => (lastCall.op = "cleanup" /\ Len(before) > lastCall.maxSize)

C18_Witness ==
    /\ lastCall.op = "cleanup"
    /\ lastCall.maxSize = 0
    /\ Len(before) = 1
    /\ memoryMap = <<>>

\* the same for the bulk loader: a read removes an entry only when its
\* eviction step ran, with a non-zero cap that the store then fills
C18_ReadRemovesOnOverflow ==
    \A v \in mapKeys(before) :
        ~mapHas(memoryMap, v) =>
            /\ lastCall.op = "resolve"
            /\ options.maxMemoryMapSize # None
            /\ options.maxMemoryMapSize[1] # 0
            /\ Len(memoryMap) = options.maxMemoryMapSize[1]

\* ------------------------------------------------------------------ claims: helper functions
\* the string-valued leaves of a tree with the key segments leading to each,
\* depth first in enumeration order
RECURSIVE stringLeaves(_, _)
stringLeaves(obj, path) ==
    IF obj = <<>> THEN <<>>
    ELSE LET node == obj[1].node
             here == Append(path, obj[1].key)
             found == IF node.kind = "string" THEN <<[path |-> here, value |-> node.str]>>
                      ELSE IF node.kind = "object" THEN stringLeaves(node.children, here)
                      ELSE <<>>
         IN found \o stringLeaves(Tail(obj), path)

\* the segments joined with '.'
RECURSIVE dotted(_)
dotted(path) ==
    IF Len(path) = 1 THEN path[1] ELSE path[1] \o <<".">> \o dotted(Tail(path))

dottedLeaves(obj) ==
    LET leaves == stringLeaves(obj, <<>>)
    IN [i \in 1 .. Len(leaves) |-> [key |-> dotted(leaves[i].path), value |-> leaves[i].value]]

\* an object sits under the empty string as a top-level key
emptyKeyObject(obj) ==
    \E i \in 1 .. Len(obj) : obj[i].key = <<>> /\ obj[i].node.kind = "object"

\* C19: flattenTranslations returns exactly the string-valued leaves of the
\* tree as (dotted path, value) pairs, depth first in the input's key
\* enumeration order; numbers, arrays and null are skipped; a second call on
\* the same input gives the same sequence.
C19_FlattenDottedPaths ==
    /\ step \in {"called", "again"} => output = dottedLeaves(input)
    /\ step = "again" => outputAgain = output

\* the same holds for every tree with no object under an empty top-level key
C19_FlattenNonEmptyKeys ==
    /\ (step \in {"called", "again"} /\ ~emptyKeyObject(input)) =>
          output = dottedLeaves(input)
    /\ step = "again" => outputAgain = output

LastRead == reads[lastCall.read]

\* the then-handler of a read has just run
ReadLoaded == lastCall.op = "resolve"

\* ... in live mode, for a namespace that is tracked, on a page with a store
ReadTracked ==
    /\ ReadLoaded
    /\ isLiveMode
    /\ shouldTrackNamespace(LastRead.namespace)
    /\ memoryMapAvailable

FilterSet == options.trackNamespaces # None /\ options.trackNamespaces[1] # {}

\* the non-empty string leaves of payload p with their dotted paths
nonEmptyLeaves(p) == {leaf \in entries(dottedLeaves(Payloads[p])) : leaf.value # ""}

SizeCapSet == options.maxMemoryMapSize # None /\ options.maxMemoryMapSize[1] # 0

\* C22: with a non-empty trackNamespaces list, a read of a namespace outside
\* the list adds nothing to the store and evicts nothing, and its callback
\* still gets the translations; with no list or an empty one the read of any
\* namespace is tracked.
C22_NamespaceFilter ==
    /\ (ReadLoaded /\ isLiveMode /\ FilterSet
           /\ LastRead.namespace \notin options.trackNamespaces[1]) =>
          /\ memoryMap = before
          /\ LastRead.state = "loaded"
          /\ LastRead.payload \in 1 .. Len(Payloads)
          /\ LastRead.callbacks = 1
    /\ (ReadLoaded /\ isLiveMode /\ ~FilterSet /\ memoryMapAvailable) =>
          \E leaf \in nonEmptyLeaves(LastRead.payload) :
              /\ mapHas(memoryMap, leaf.value)
              /\ leaf.key \in idsIn(memoryMap, leaf.value)
              /\ mapGet(memoryMap, leaf.value).trackedAt = now

C22_Witness ==
    /\ ReadLoaded
    /\ isLiveMode
    /\ options.trackNamespaces = Some({"common"})
    /\ LastRead.namespace = "other"
    /\ LastRead.payload = 2
    /\ Len(before) = 1
    /\ memoryMap = before

C25_CallbackExactlyOnce ==
    /\ \A i \in 1 .. Len(reads) :
          /\ reads[i].state = "pending" => reads[i].callbacks = 0
          /\ reads[i].state \in {"loaded", "failed"} => reads[i].callbacks = 1
          /\ (reads[i].url = Thrown /\ reads[i].state # "pending") => reads[i].state = "failed"
    /\ lastCall.op = "reject" => memoryMap = before

\* with a callback that returns, C25 holds
C25_ReturningCallbackOnce ==
    /\ \A i \in 1 .. Len(reads) :
          reads[i].callback = "returns" =>
              /\ reads[i].state = "pending" => reads[i].callbacks = 0
              /\ reads[i].state \in {"loaded", "failed"} => reads[i].callbacks = 1
              /\ (reads[i].url = Thrown /\ reads[i].state # "pending") =>
                    reads[i].state = "failed"
    /\ lastCall.op = "reject" => memoryMap = before

\* every placeholder of the template replaced
interpolated(template, language, namespace) ==
    [i \in 1 .. Len(template) |->
        IF template[i] = PlaceholderLng THEN language
        ELSE IF template[i] = PlaceholderNs THEN namespace
        ELSE template[i]]

occurrences(template, piece) == Cardinality({i \in 1 .. Len(template) : template[i] = piece})

\* C26: a loadPath function wins and its result is the URL; otherwise a
\* loadPath string is the URL with {{lng}} and {{ns}} replaced by the
\* language and namespace of the read; otherwise the URL is
\* https://cdn.contentstorage.app/<contentKey>/content/<LANGUAGE>.json with
\* the language in upper case, whatever the namespace.
C26_LoadUrlSelection ==
    \A i \in 1 .. Len(reads) :
        LET r == reads[i]
        IN IF options.loadPath # None /\ options.loadPath[1].kind = "function"
           THEN r.url = loadPathResult(r.language, r.namespace)
           ELSE IF options.loadPath # None
           THEN r.url = interpolated(options.loadPath[1].template, r.language, r.namespace)
           ELSE (options.contentKey \notin {Undefined, ""}) =>
                   r.url = <<"https://cdn.contentstorage.app", "/", options.contentKey,
                             "/content/", toUpperCase(r.language), ".json">>

\* C26 holds for the templates that name each placeholder at most once
C26_SinglePlaceholders ==
    \A i \in 1 .. Len(reads) :
        LET r == reads[i]
        IN IF options.loadPath # None /\ options.loadPath[1].kind = "function"
           THEN r.url = loadPathResult(r.language, r.namespace)
           ELSE IF options.loadPath # None
           THEN (occurrences(options.loadPath[1].template, PlaceholderLng) <= 1
                    /\ occurrences(options.loadPath[1].template, PlaceholderNs) <= 1) =>
                   r.url = interpolated(options.loadPath[1].template, r.language, r.namespace)
           ELSE (options.contentKey \notin {Undefined, ""}) =>
                   r.url = <<"https://cdn.contentstorage.app", "/", options.contentKey,
                             "/content/", toUpperCase(r.language), ".json">>

\* C27: with cdnBaseUrl set and no loadPath, the translations are fetched
\* from that base URL.
C27_CustomCdnBaseUrl ==
    \A i \in 1 .. Len(reads) :
        (options.loadPath = None /\ options.cdnBaseUrl # Undefined
            /\ options.contentKey \notin {Undefined, ""}) =>
            reads[i].url[1] = options.cdnBaseUrl

\* ------------------------------------------------------------------ claims: live-mode detection
\* C29: detectLiveEditorMode returns true exactly when forceLiveMode is set,
\* or the code runs in a browser, inside an iframe, on a URL whose query has
\* the live-editor parameter; when reading window.top throws and
\* forceLiveMode is not set, it returns false.
C29_LiveModeDetection ==
    step = "called" =>
        /\ output = <<input.forceLiveMode
                       \/ (/\ browser
                           /\ ~topThrows
                           /\ inIframe
                           /\ input.liveEditorParam \in input.query)>>
        /\ (topThrows /\ ~input.forceLiveMode) => output = <<FALSE>>

C29_Witness ==
    /\ step = "called"
    /\ browser
    /\ topThrows
    /\ inIframe
    /\ input.liveEditorParam = "custom_editor"
    /\ input.query = {"custom_editor", "page"}
    /\ ~input.forceLiveMode
    /\ output = <<FALSE>>

C29_WitnessDetected ==
    /\ step = "called"
    /\ browser
    /\ ~topThrows
    /\ inIframe
    /\ input.liveEditorParam \in input.query
    /\ ~input.forceLiveMode
    /\ output = <<TRUE>>

\* ------------------------------------------------------------------ claims: the post-processor
\* the last step was a process call on an instance that is in live mode
ProcessedLive == processor.isLiveMode /\ lastCall.op \in {"track", "process"}

\* the key a process call is about: the first of an array of fallback keys
firstKey == processCall.key.keys[1]

\* what stands in front of the first colon of k
beforeFirstColon(k) ==
    LET first == CHOOSE i \in 1 .. Len(k) : k[i] = ":" /\ \A j \in 1 .. i - 1 : k[j] # ":"
    IN SubSeq(k, 1, first - 1)

\* C28: in live mode each process(value, key, options, translator) call
\* makes exactly one track call: for the value, keyed by the key or by the
\* first element when key is an array, with the part of that key before its
\* first colon as namespace when it has a colon and no namespace otherwise,
\* and with options.lng, or else translator.language, as language; where the
\* store exists it changes as that one track call changes it.
C28_OneTrackPerProcess ==
    ProcessedLive =>
        LET namespace == IF colons(firstKey) > 0
                         THEN stringOf(beforeFirstColon(firstKey)) ELSE Undefined
            language == IF processCall.lng \notin {Undefined, ""}
                        THEN processCall.lng ELSE processCall.language
        IN /\ lastCall.op = "track"
           /\ lastCall.value = processCall.value
           /\ lastCall.key = firstKey
           /\ lastCall.namespace = namespace
           /\ lastCall.language = language
           /\ memoryMapAvailable =>
                 /\ Cardinality(entriesFor(memoryMap, processCall.value)) = 1
                 /\ mapGet(memoryMap, processCall.value).ids
                       = idsIn(before, processCall.value) \cup {normalizeKey(firstKey, None)}
                 /\ mapGet(memoryMap, processCall.value).namespace = namespace
                 /\ mapGet(memoryMap, processCall.value).language = language
                 /\ Len(memoryMap) = Len(before)
                       + (IF mapHas(before, processCall.value) THEN 0 ELSE 1)
                 /\ \A i \in 1 .. Len(before) :
                       before[i].value # processCall.value => memoryMap[i] = before[i]

C28_Witness ==
    /\ ProcessedLive
    /\ processCall.key = KeyArray(<<KeyNColonK, KeyK>>)
    /\ processCall.lng = ""
    /\ processCall.language = "en"
    /\ lastCall.key = KeyNColonK
    /\ lastCall.namespace = "n"
    /\ lastCall.language = "en"
    /\ mapHas(memoryMap, "Welcome")
    /\ mapGet(memoryMap, "Welcome").ids = {KeyNDotK}

\* ------------------------------------------------------------------ claims: registration
\* how many times the post-processor is named in a postProcess option
occurrencesOf(pp) == Cardinality({i \in 1 .. Len(pp.items) : pp.items[i] = ProcessorName})

\* the step is a backend init that detects live mode
LiveInitStep == lastCall'.op = "init" /\ isLiveMode'

\* the names configured before the step are all there after it, in their order
NamesKept ==
    /\ Len(postProcess'.items) >= Len(postProcess.items)
    /\ SubSeq(postProcess'.items, 1, Len(postProcess.items)) = postProcess.items

\* C30 (as stated): after the backend's init in live mode postProcess is an
\* array that names 'contentstorage' exactly once and still names every
\* post-processor configured before, whatever was configured and however
\* many times init runs.
C30_NamedExactlyOnce ==
    [][LiveInitStep =>
          /\ postProcess'.kind = "array"
          /\ occurrencesOf(postProcess') = 1
          /\ NamesKept]_vars

\* C30 (amended): init in live mode never adds a second 'contentstorage':
\* postProcess becomes an array with every name configured before, in order
\* (a single name wrapped), followed by 'contentstorage' only when it was not
\* among them; it is named exactly once unless the configuration itself
\* named it more than once, and a repeated init changes nothing.
C30_RegistrationAddsAtMostOne ==
    [][LiveInitStep =>
          /\ postProcess'.kind = "array"
          /\ occurrencesOf(postProcess')
                = (IF occurrencesOf(postProcess) = 0 THEN 1 ELSE occurrencesOf(postProcess))
          /\ Len(postProcess'.items)
                = Len(postProcess.items) + (IF occurrencesOf(postProcess) = 0 THEN 1 ELSE 0)
          /\ NamesKept]_vars

\* init has run again, after a read that the first init made a tracked one,
\* on options the first init had registered in
C30_Witness ==
    /\ lastCall.op = "init"
    /\ isLiveMode
    /\ Len(reads) = 1
    /\ mapHas(memoryMap, "Hello")
    /\ postProcess = PostProcessArray(<<"sprintf", ProcessorName>>)

\* after any number of live inits the post-processor is named, and once
\* where the configuration did not name it more than once
C30_RegisteredAfterInit ==
    (initialized /\ isLiveMode) =>
        /\ postProcess.kind = "array"
        /\ occurrencesOf(postProcess) \in {1, 2}

\* ------------------------------------------------------------------ claims: outside live mode
\* neither forceLiveMode nor a browser page framed by the live editor
NotLive ==
    /\ ~options.forceLiveMode
    /\ ~(browser /\ ~topThrows /\ inIframe /\ hasMarker)

\* C21: when live mode is not detected, no sequence of backend init, read
\* (loaded or failed), post-processor construction and process calls creates
\* the store or adds an entry to it: every call leaves window.memoryMap as it
\* was, undefined where it was undefined, and no Map is constructed.
C21_NoTrackingOutsideLiveMode ==
    NotLive =>
        /\ memoryMap = <<>>
        /\ mapsCreated = 0
        /\ lastCall # NoCall => (hasMemoryMap = hadMemoryMap /\ before = <<>>)
        /\ ~isLiveMode
        /\ ~processor.isLiveMode

\* outside live mode: the backend initialized, a payload loaded, the
\* post-processor constructed and called, on a page inside an iframe
C21_Witness ==
    /\ NotLive
    /\ browser
    /\ inIframe
    /\ initialized
    /\ Len(reads) = 1
    /\ reads[1].state = "loaded"
    /\ reads[1].callbacks = 1
    /\ processor.constructed
    /\ lastCall.op = "process"
    /\ returned = "Welcome"
    /\ ~hasMemoryMap

\* ------------------------------------------------------------------ claims: the store of a live instance
\* the backend has run init and detected live mode, on a browser page
LiveBackend == browser /\ initialized /\ isLiveMode

\* C31: when the backend's init detects live mode in a browser, the store
\* exists when init returns: constructed, empty, if the page had none, and
\* the one the page had, with its entries, otherwise; every later read and
\* process call of the instance finds the store there.
C31_StoreExistsAfterLiveInit ==
    LiveBackend =>
        /\ hasMemoryMap
        /\ lastCall.op = "init" =>
              IF hadMemoryMap
              THEN memoryMap = before
              ELSE memoryMap = <<>> /\ mapsCreated = 1
        /\ lastCall.op \in {"read", "resolve", "reject", "track", "process"} => hadMemoryMap

\* init created the store; a read and a process call after it tracked into it
C31_Witness ==
    /\ LiveBackend
    /\ ~options.forceLiveMode
    /\ mapsCreated = 1
    /\ Len(reads) = 1
    /\ reads[1].state = "loaded"
    /\ lastCall.op = "track"
    /\ hadMemoryMap
    /\ Len(memoryMap) >= 2

\* ------------------------------------------------------------------ claims: process leaves the text
\* the last step was a process call
Processed == lastCall.op \in {"track", "process"}

\* C32: process returns its input value unchanged in every case: in live
\* mode and outside it, with or without a store, for a single key and an
\* array of keys, with and without options, for the empty text too.
C32_ProcessReturnsValue ==
    Processed => returned = processCall.value

\* a live call with an array key and options
C32_Witness ==
    /\ Processed
    /\ processor.isLiveMode
    /\ processCall.key.isArray
    /\ processCall.pairs # {}
    /\ processCall.value = "Welcome"
    /\ returned = "Welcome"
    /\ mapHas(memoryMap, "Welcome")

\* a call outside live mode with a single key and no options
C32_WitnessNotLive ==
    /\ Processed
    /\ ~processor.isLiveMode
    /\ ~processCall.key.isArray
    /\ processCall.pairs = {}
    /\ processCall.lng = Undefined
    /\ returned = processCall.value
    /\ memoryMap = <<>>

\* ------------------------------------------------------------------ claims: eviction with equal timestamps
\* the entries of m whose value is no longer in the store
removedFrom(m) == {e \in entries(m) : ~mapHas(memoryMap, e.value)}

\* C33: oldest-first eviction also under equal timestamps: after any
\* cleanup(maxSize), maxSize >= 0, on a store whose entries may share
\* trackedAt values, no removed entry has a trackedAt strictly greater than
\* that of an entry that stayed, exactly max(0, size - maxSize) entries were
\* removed, and the entries that stayed are unchanged.
C33_OldestFirstWithTies ==
    Cleaned =>
        LET removed == removedFrom(before)
            overflow == Len(before) - lastCall.maxSize
        IN /\ \A r \in removed, e \in entries(memoryMap) : ~(r.trackedAt > e.trackedAt)
           /\ Cardinality(removed) = (IF overflow > 0 THEN overflow ELSE 0)
           /\ Len(memoryMap) = Len(before) - Cardinality(removed)
           /\ entries(memoryMap) \subseteq entries(before)

\* three entries of one timestamp, two of them removed
C33_Witness ==
    /\ Cleaned
    /\ Len(before) = 3
    /\ before[1].trackedAt = before[2].trackedAt
    /\ before[2].trackedAt = before[3].trackedAt
    /\ lastCall.maxSize = 1
    /\ Len(memoryMap) = 1

\* a removed and a retained entry of the same timestamp, an older one removed too
C33_WitnessTieAtCutoff ==
    /\ Cleaned
    /\ Len(before) = 3
    /\ lastCall.maxSize = 1
    /\ \E r \in removedFrom(before), e \in entries(memoryMap) : r.trackedAt = e.trackedAt
    /\ \E r \in removedFrom(before), e \in entries(memoryMap) : r.trackedAt < e.trackedAt

\* ------------------------------------------------------------------ claims: the frame of track
\* C34: track(v, ...) changes at most the entry for v: every entry for
\* another value is the same before and after (keys, namespace, language,
\* trackedAt, variables) and stays in its place, the number of entries grows
\* by one if v was absent and is unchanged otherwise; track removes nothing,
\* however many entries the store holds.
C34_TrackFrame ==
    Tracked =>
        /\ \A i \in 1 .. Len(before) :
              before[i].value # lastCall.value =>
                 i <= Len(memoryMap) /\ memoryMap[i] = before[i]
        /\ \A i \in 1 .. Len(memoryMap) :
              memoryMap[i].value # lastCall.value =>
                 i <= Len(before) /\ before[i] = memoryMap[i]
        /\ Len(memoryMap) = Len(before) + (IF mapHas(before, lastCall.value) THEN 0 ELSE 1)
        /\ hasMemoryMap /\ mapsCreated = 1

\* a third text tracked into a store of two: both stay as they were
C34_Witness ==
    /\ Tracked
    /\ Len(before) = 2
    /\ ~mapHas(before, lastCall.value)
    /\ Len(memoryMap) = 3
    /\ memoryMap[1] = before[1]
    /\ memoryMap[2] = before[2]

\* a text tracked again: its entry changes, the other one does not
C34_WitnessExisting ==
    /\ Tracked
    /\ Len(before) = 2
    /\ before[1].value = lastCall.value
    /\ memoryMap[1] # before[1]
    /\ memoryMap[2] = before[2]
    /\ Len(memoryMap) = 2

\* ------------------------------------------------------------------ claims: interleaved bulk loads
\* every read that was made has completed, one of them at least with a payload
AllReadsCompleted ==
    /\ Len(reads) = MaxReads
    /\ \A i \in 1 .. Len(reads) : reads[i].state # "pending"
    /\ \E i \in 1 .. Len(reads) : reads[i].state = "loaded"

\* each read calls back once with the payload its own fetch delivered, and
\* the then-handler of a read is one step: it writes the leaves of its own
\* payload under its own language, evicts, and leaves the reads in flight alone
OwnPayloadInOneStep ==
    /\ \A i \in 1 .. Len(reads) :
          /\ reads[i].state = "pending" => (reads[i].callbacks = 0 /\ reads[i].payload = 0)
          /\ reads[i].state = "loaded" =>
                (reads[i].callbacks = 1 /\ reads[i].payload \in 1 .. Len(Payloads))
    /\ ReadLoaded =>
          \A i \in 1 .. Len(memoryMap) :
              \/ \E j \in 1 .. Len(before) : before[j] = memoryMap[i]
              \/ /\ ReadTracked
                 /\ \E leaf \in nonEmptyLeaves(LastRead.payload) :
                       /\ leaf.value = memoryMap[i].value
                       /\ leaf.key \in memoryMap[i].ids
                 /\ memoryMap[i].language = LastRead.language

\* C35 (as stated): when several reads are in flight and their fetches
\* complete in any order, each callback receives the payload fetched for its
\* own read, each read's track-all-then-evict step runs with no step of
\* another read inside it, and once all of them have completed the store
\* holds at most maxMemoryMapSize entries, for every configured maximum.
C35_InterleavedLoads ==
    /\ OwnPayloadInOneStep
    /\ (AllReadsCompleted /\ isLiveMode /\ options.maxMemoryMapSize # None) =>
          Len(memoryMap) <= options.maxMemoryMapSize[1]

\* with a maximum the code treats as set (non-zero) C35 holds
C35_InterleavedLoadsNonZeroCap ==
    /\ OwnPayloadInOneStep
    /\ (AllReadsCompleted /\ isLiveMode /\ SizeCapSet) =>
          Len(memoryMap) <= options.maxMemoryMapSize[1]

\* two reads in flight at once, completed in the reverse order, under a cap
C35_ReverseOrderReached ==
    /\ AllReadsCompleted
    /\ isLiveMode
    /\ options.maxMemoryMapSize = Some(1)
    /\ reads[1].state = "loaded"
    /\ reads[2].state = "loaded"
    /\ lastCall.op = "resolve"
    /\ lastCall.read = 1
    /\ reads[1].payload = 1
    /\ reads[2].payload = 2
    /\ Len(before) = 1
    /\ before[1].value = "Goodbye"
    /\ Len(memoryMap) = 1
    /\ memoryMap[1].value = "Welcome"

\* ------------------------------------------------------------------ claims: the live editor script
\* the step is a call that reaches loadLiveEditorScript when a promise exists
LaterLoadCall ==
    /\ scriptLoad.liveEditorReadyPromise # 0
    /\ lastCall' # lastCall
    /\ lastCall'.op \in {"loadLiveEditorScript", "init", "construct"}

\* C36: every call of loadLiveEditorScript after the first returns the
\* first call's promise and starts no new script load: no promise and no
\* script element is created and the load in progress is not touched, while
\* the first load is in progress, after it has succeeded and after it has
\* failed, whatever retries the later call passes and whether the
\* application, the backend or the post-processor makes it.
C36_SingleLoadSequence ==
    /\ [](/\ scriptLoad.promises <= 1
          /\ scriptLoad.liveEditorReadyPromise = scriptLoad.promises
          /\ scriptLoad.returned \in {0, scriptLoad.liveEditorReadyPromise})
    /\ [][LaterLoadCall =>
            scriptLoad' = [scriptLoad EXCEPT !.returned = scriptLoad.liveEditorReadyPromise]]_vars

\* a call made after the load has failed: the failed load's promise comes back
C36_Witness ==
    /\ browser
    /\ lastCall.op = "loadLiveEditorScript"
    /\ nOps = 2
    /\ scriptLoad.settled = "false"
    /\ scriptLoad.retries = 1
    /\ scriptLoad.returned = 1
    /\ scriptLoad.elements = 1
    /\ scriptLoad.inHead = 0

\* the backend's init, which makes two calls, while the load is in progress
C36_WitnessBackend ==
    /\ browser
    /\ lastCall.op = "init"
    /\ isLiveMode
    /\ nOps = 1
    /\ scriptLoad.retries = 0
    /\ scriptLoad.settled = "pending"
    /\ scriptLoad.loading
    /\ scriptLoad.returned = 1
    /\ scriptLoad.elements = 1

\* a load was started on a page
LoadStarted == browser /\ scriptLoad.liveEditorReadyPromise # 0

\* the load makes at most maxAttempts attempts, one after the other
RetryDiscipline(maxAttempts) ==
    LET sl == scriptLoad
    IN /\ sl.attempt <= maxAttempts
       /\ sl.elements = sl.attempt
       \* attempt n + 1 follows the failure of attempt n and the timer
       /\ sl.failures \in {sl.attempt - 1, sl.attempt}
       /\ sl.loading => (sl.failures = sl.attempt - 1 /\ ~sl.timer)
       /\ sl.timer => (sl.failures = sl.attempt /\ sl.settled = "pending")
       /\ sl.settled = "pending" => (sl.loading \/ sl.timer)
       \* true as soon as an attempt loads; nothing is attempted after it
       /\ sl.settled = "true" => (~sl.loading /\ ~sl.timer /\ sl.failures = sl.attempt - 1)
       \* false only when maxAttempts attempts have failed
       /\ sl.settled = "false" =>
             (~sl.loading /\ ~sl.timer /\ sl.failures = maxAttempts /\ sl.attempt = maxAttempts)
       \* a failed element is out of the head before the next one goes in
       /\ sl.inHead = (IF sl.loading \/ sl.settled = "true" THEN 1 ELSE 0)

\* C37 (as stated): loadLiveEditorScript(retries, delay) makes at most
\* retries load attempts, starts attempt n+1 only after attempt n has failed
\* and the delay has elapsed, resolves true as soon as one attempt loads,
\* resolves false only after retries attempts have all failed, and removes
\* each failed script element before the next one is inserted.
C37_RetryBound ==
    LoadStarted => RetryDiscipline(scriptLoad.retries)

\* with retries of one or more C37 holds
C37_RetryBoundPositive ==
    (LoadStarted /\ scriptLoad.retries >= 1) => RetryDiscipline(scriptLoad.retries)

\* with retries 0 one attempt is made all the same
C37_RetryBoundZero ==
    (LoadStarted /\ scriptLoad.retries = 0) => RetryDiscipline(1)

\* the second of two attempts is being fetched, the first element removed
C37_SecondAttemptReached ==
    /\ LoadStarted
    /\ scriptLoad.retries = 2
    /\ scriptLoad.attempt = 2
    /\ scriptLoad.loading
    /\ scriptLoad.failures = 1
    /\ scriptLoad.inHead = 1

\* the promise of the script load is settled
Settled == scriptLoad.settled \in {"true", "false"}

\* C38: the script-load promise always settles: provided every inserted
\* script element eventually fires load or error (and a pending timer
\* runs), the promise of loadLiveEditorScript is eventually resolved with
\* true or false, and once resolved its value never changes; outside a
\* browser it is resolved with false at once and no element is created.
C38_PromiseSettles ==
    /\ (scriptLoad.liveEditorReadyPromise # 0) ~> Settled
    /\ [][Settled => scriptLoad'.settled = scriptLoad.settled]_vars
    /\ []((~browser /\ scriptLoad.liveEditorReadyPromise # 0) =>
             (scriptLoad.settled = "false" /\ scriptLoad.elements = 0 /\ scriptLoad.inHead = 0))

\* resolved false after the last of two attempts failed
C38_Witness ==
    /\ browser
    /\ scriptLoad.retries = 2
    /\ scriptLoad.failures = 2
    /\ scriptLoad.settled = "false"
    /\ ~scriptLoad.loading
    /\ ~scriptLoad.timer

\* resolved false on a server, nothing created
C38_WitnessServer ==
    /\ ~browser
    /\ scriptLoad.liveEditorReadyPromise = 1
    /\ scriptLoad.settled = "false"
    /\ scriptLoad.elements = 0

\* ------------------------------------------------------------------ claims: outside a browser
\* C39: with no window and no document, initialize and get return null,
\* track and evict change nothing, and a backend or a post-processor with
\* forceLiveMode true tracks nothing: after every sequence of operations
\* there is no store and no entry, every completed read has called back
\* once, and process has returned its value.
C39_NoStoreOutsideBrowser ==
    ~browser =>
        /\ ~hasMemoryMap
        /\ memoryMap = <<>>
        /\ mapsCreated = 0
        /\ lastCall.op \in {"initialize", "get"} => lastCall.result = "null"
        /\ \A i \in 1 .. Len(reads) :
              reads[i].state # "pending" => reads[i].callbacks = 1
        /\ Processed => returned = processCall.value

\* a live backend and post-processor on a server: a payload loaded, a
\* process call that made its track call, and still no store
C39_Witness ==
    /\ ~browser
    /\ options.forceLiveMode
    /\ isLiveMode
    /\ processor.isLiveMode
    /\ Len(reads) = 1
    /\ reads[1].state = "loaded"
    /\ lastCall.op = "track"
    /\ returned = "Welcome"
    /\ memoryMap = <<>>

\* initialize on a server returned null
C39_WitnessInitialize ==
    /\ ~browser
    /\ lastCall.op = "initialize"
    /\ lastCall.result = "null"
    /\ nOps = 2

============================================================================
